---- MODULE Spec2Model ----
(***************************************************************************)
(* State-machine model of app.py: the task registry (TaskManager), the     *)
(* file registry (FileManager), the download orchestrator                  *)
(* (YouTubeDownloader.download_video_async / _download_video_sync), the    *)
(* periodic reapers and the HTTP handlers that touch the registries.       *)
(*                                                                         *)
(* Coroutines run on one event loop: a handler's code between two awaits   *)
(* is one action.  _download_video_sync runs on an executor thread: each   *)
(* of its stages is one action of the job.  Time is the integer `now`      *)
(* (seconds); datetime.now() and time.time() read it.                      *)
(***************************************************************************)
EXTENDS Integers, Sequences, FiniteSets, TLC

VARIABLES
    tasks,              \* task_manager.tasks: task id -> task dict
    active_downloads,   \* task_manager.active_downloads
    sem,                \* downloader.download_semaphore: free slots
    files,              \* file_manager._files: task id -> file info dict
    max_file_age,       \* file_manager.max_file_age
    job,                \* per download_video_async call: coroutine and thread locals
    dirs,               \* the file system: state of each job's temporary directory
    timers,             \* sleeping cleanup_after_download coroutines: <<task id, wake time>>
    response,           \* the last HTTP response produced, or the last call's outcome
    now,                \* the clock
    registered,         \* history: task ids register_file has stored a record for
    reclaimed,          \* history: task ids whose record cleanup_file has removed
    reaped,             \* history: task ids cleanup_old_tasks has removed
    lock,               \* task_manager._lock: 0 when free, else the thread holding it
    calls,              \* per executor thread: its update_task call in progress
    audit,              \* history: per task, the fields the update_task calls wrote
                        \* and the value the last completed call left
    tool_calls,         \* number of extract_info probes POST /extract has started
    shutdown,           \* shutdown_event: its position, start_time, wake time and
                        \* the number of sweeps it has invoked
    reaper              \* the periodic loops: the instant cleanup_task's sleep
                        \* ends, and whether cleanup_temp_files is still looping

\* The state of the calls that threads and clients make on the registries
\* besides the download jobs
callers == <<lock, calls, audit, tool_calls, shutdown, reaper>>

vars == <<tasks, active_downloads, sem, files, max_file_age, job, dirs, timers,
          response, now, registered, reclaimed, reaped, lock, calls, audit,
          tool_calls, shutdown, reaper>>

-----------------------------------------------------------------------------
(* Bounds of the model *)

MaxJobs == 4
SmallJobs == 2
MaxThreads == 2
MaxTasks == 1
MaxProbes == 2
MaxSeconds == 13320
MaxBytes == 3

(* Program constants *)

max_concurrent_downloads == 3
SemaphoreSlots == 3
cleanup_interval == 7200
DefaultMaxFileAge == 3600
ReducedMaxFileAge == 1800
AccessedGrace == 600
ReclaimDelay == 30
max_retries == 3
TaskMaxRetries == 5
shutdown_timeout == 300
ReaperPeriod == 1800
ShutdownPollSleep == 10

Jobs == 1..MaxJobs
Threads == 1..MaxThreads

-----------------------------------------------------------------------------
(* Values *)

\* Python None and a present value: an optional is a sequence of length <= 1
None == <<>>
Some(v) == <<v>>

\* TaskStatus
PENDING == "pending"
PROCESSING == "processing"
COMPLETED == "completed"
FAILED == "failed"

\* An error text is the sequence of the phrases it is made of.
BotPhrase == "Sign in to confirm you're not a bot"
FormatPhrase == "Requested format is not available"
ForbiddenPhrase == "HTTP Error 403"
BrokenPhrase == "Connection broken"
TimeoutLower == "timeout"
TimeoutUpper == "Read Timeout"
NoSpacePhrase == "No space left on device"
NotFoundText == <<"Downloaded file not found">>
StatErrorText == <<"[Errno 5] Input/output error">>
RobotPhrase == "Robot check required"
PrivatePhrase == "Private video"
UnavailablePhrase == "Video unavailable"
BlockingRequestsPhrase == "The network is blocking requests to this host"

\* str.lower() of a phrase
Lower(p) ==
    CASE p = TimeoutUpper -> "read timeout"
      [] p = ForbiddenPhrase -> "http error 403"
      [] p = BrokenPhrase -> "connection broken"
      [] p = BotPhrase -> "sign in to confirm you're not a bot"
      [] p = FormatPhrase -> "requested format is not available"
      [] p = NoSpacePhrase -> "no space left on device"
      [] p = RobotPhrase -> "robot check required"
      [] p = PrivatePhrase -> "private video"
      [] p = UnavailablePhrase -> "video unavailable"
      [] p = BlockingRequestsPhrase -> "the network is blocking requests to this host"
      [] OTHER -> p

\* needle in text
Contains(text, needle) == \E i \in 1..Len(text) : text[i] = needle

\* "timeout" in text.lower(): the lower-cased phrases that hold the word
ContainsTimeoutLower(text) ==
    \E i \in 1..Len(text) : Lower(text[i]) \in {"timeout", "read timeout"}

-----------------------------------------------------------------------------
(* TaskManager *)

\* dict.update(kwargs): the fields of kw replace those of d
DictUpdate(d, kw) ==
    [f \in DOMAIN d \cup DOMAIN kw |-> IF f \in DOMAIN kw THEN kw[f] ELSE d[f]]

\* mutant: a new task starts with the download loop's retry budget
NewTaskWrongBudget(task_id, t) ==
    [ id |-> task_id, status |-> PENDING, progress |-> 0, message |-> "Task created",
      filename |-> None, download_url |-> None, error |-> None,
      created_at |-> t, updated_at |-> t, downloaded_bytes |-> 0, total_bytes |-> 0,
      retry_count |-> 0, max_retries |-> max_retries ]

NewTask(task_id, t) ==
    [ id |-> task_id,
      status |-> PENDING,
      progress |-> 0,
      message |-> "Task created",
      filename |-> None,
      download_url |-> None,
      error |-> None,
      created_at |-> t,
      updated_at |-> t,
      downloaded_bytes |-> 0,
      total_bytes |-> 0,
      retry_count |-> 0,
      max_retries |-> TaskMaxRetries ]

create_task(ts, task_id, t) ==
    [x \in DOMAIN ts \cup {task_id} |-> IF x = task_id THEN NewTask(task_id, t) ELSE ts[x]]

\* mutant: an absent id is inserted again, as dict.setdefault would
update_task_upsert(ts, task_id, kw, t) ==
    [x \in DOMAIN ts \cup {task_id} |->
        IF x = task_id
        THEN [DictUpdate(IF task_id \in DOMAIN ts THEN ts[task_id] ELSE NewTask(task_id, t), kw)
                EXCEPT !.updated_at = t]
        ELSE ts[x]]

\* mutant: the fields are merged but updated_at keeps its old value
update_task_stale(ts, task_id, kw, t) ==
    IF task_id \in DOMAIN ts
    THEN [ts EXCEPT ![task_id] = DictUpdate(@, kw)]
    ELSE ts

update_task(ts, task_id, kw, t) ==
    IF task_id \in DOMAIN ts
    THEN [ts EXCEPT ![task_id] = [DictUpdate(@, kw) EXCEPT !.updated_at = t]]
    ELSE ts

\* mutant: an absent id yields a fresh task, as dict.setdefault would
get_task_default(ts, task_id) ==
    IF task_id \in DOMAIN ts THEN Some(ts[task_id]) ELSE Some(NewTask(task_id, 0))

get_task(ts, task_id) == IF task_id \in DOMAIN ts THEN Some(ts[task_id]) ELSE None

can_start_download(n) == n < max_concurrent_downloads

\* mutant: the counter is incremented twice per admission
increment_twice(n) == n + 2

increment_active_downloads(n) == n + 1

decrement_active_downloads(n) == IF n - 1 > 0 THEN n - 1 ELSE 0

\* mutant: the age alone decides, whatever the status
StaleTasksAnyStatus(ts, t) ==
    {x \in DOMAIN ts : t - ts[x].updated_at > cleanup_interval}

\* mutant: failed tasks are kept
StaleTasksCompletedOnly(ts, t) ==
    {x \in DOMAIN ts : t - ts[x].updated_at > cleanup_interval /\ ts[x].status = COMPLETED}

\* the ids cleanup_old_tasks collects in to_remove
StaleTasks(ts, t) ==
    {x \in DOMAIN ts : t - ts[x].updated_at > cleanup_interval
                        /\ ts[x].status \in {COMPLETED, FAILED}}

cleanup_old_tasks(ts, t) == [x \in DOMAIN ts \ StaleTasks(ts, t) |-> ts[x]]

-----------------------------------------------------------------------------
(* The file system.  Job j's mkdtemp directory is directory j; it is       *)
(* "absent", or present and "empty", holding the tool's output under the   *)
(* name with the job's unique token ("token") or under another name        *)
(* ("stray"), or holding the renamed final file ("final").                 *)

DirExists(ds, d) == ds[d] # "absent"

\* os.path.exists(file_path) for the final path inside directory d
FileExists(ds, d) == ds[d] = "final"

OutputSize == 7

-----------------------------------------------------------------------------
(* FileManager *)

register_file(fs, ds, task_id, file_path, temp_dir, t) ==
    [x \in DOMAIN fs \cup {task_id} |->
        IF x = task_id
        THEN [ file_path |-> file_path,
               temp_dir |-> temp_dir,
               filename |-> file_path.name,
               created_at |-> t,
               downloaded |-> FALSE,
               file_size |-> IF FileExists(ds, file_path.dir) THEN OutputSize ELSE 0,
               access_count |-> 0 ]
        ELSE fs[x]]

\* mutant: the flag is set but the access is not counted
mark_downloaded_flag_only(fs, task_id) ==
    IF task_id \in DOMAIN fs THEN [fs EXCEPT ![task_id].downloaded = TRUE] ELSE fs

mark_downloaded(fs, task_id) ==
    IF task_id \in DOMAIN fs
    THEN [fs EXCEPT ![task_id].downloaded = TRUE, ![task_id].access_count = @ + 1]
    ELSE fs

get_file_info(fs, task_id) == IF task_id \in DOMAIN fs THEN Some(fs[task_id]) ELSE None

\* shutil.rmtree(d) guarded by os.path.exists(d); rm_ok = FALSE: rmtree raises
\* and leaves the directory
Rmtree(ds, d, rm_ok) ==
    IF DirExists(ds, d) /\ rm_ok THEN [ds EXCEPT ![d] = "absent"] ELSE ds

\* What the try block of cleanup_file raises: rmtree's error
TryRmtree(ds, d, rm_ok) ==
    IF DirExists(ds, d) /\ ~rm_ok THEN Some("OSError") ELSE None

\* mutant: no except clause, rmtree's error leaves cleanup_file
cleanup_file_raises_uncaught(st, task_id, rm_ok) ==
    IF task_id \in DOMAIN st.files
    THEN TryRmtree(st.dirs, st.files[task_id].temp_dir, rm_ok)
    ELSE None

\* The exception that leaves cleanup_file: rmtree's error is caught by
\* `except Exception` and logged, and `del` is reached only for a known id
cleanup_file_raises(st, task_id, rm_ok) ==
    IF task_id \in DOMAIN st.files
    THEN LET e == TryRmtree(st.dirs, st.files[task_id].temp_dir, rm_ok)
         IN IF e # None THEN None ELSE e
    ELSE None

\* mutant: nothing is done for a record whose directory is already gone
cleanup_file_needs_dir(st, task_id, rm_ok) ==
    IF task_id \in DOMAIN st.files /\ DirExists(st.dirs, st.files[task_id].temp_dir)
    THEN [ files |-> [x \in DOMAIN st.files \ {task_id} |-> st.files[x]],
           dirs |-> Rmtree(st.dirs, st.files[task_id].temp_dir, rm_ok),
           reclaimed |-> st.reclaimed \cup {task_id} ]
    ELSE st

\* mutant: the record is deleted inside the try, so it stays when rmtree raises
cleanup_file_keep_on_error(st, task_id, rm_ok) ==
    IF task_id \in DOMAIN st.files
       /\ (rm_ok \/ ~DirExists(st.dirs, st.files[task_id].temp_dir))
    THEN [ files |-> [x \in DOMAIN st.files \ {task_id} |-> st.files[x]],
           dirs |-> Rmtree(st.dirs, st.files[task_id].temp_dir, rm_ok),
           reclaimed |-> st.reclaimed \cup {task_id} ]
    ELSE st

\* cleanup_file: the record goes in the finally clause whatever rmtree did
cleanup_file(st, task_id, rm_ok) ==
    IF task_id \in DOMAIN st.files
    THEN [ files |-> [x \in DOMAIN st.files \ {task_id} |-> st.files[x]],
           dirs |-> Rmtree(st.dirs, st.files[task_id].temp_dir, rm_ok),
           reclaimed |-> st.reclaimed \cup {task_id} ]
    ELSE st

\* mutant: a downloaded file gets no shorter threshold
OldFilesNoGrace(fs, age_limit, t) ==
    {x \in DOMAIN fs : t - fs[x].created_at > age_limit}

\* the ids cleanup_old_files collects in to_cleanup
OldFiles(fs, age_limit, t) ==
    {x \in DOMAIN fs :
        \/ t - fs[x].created_at > age_limit
        \/ fs[x].downloaded /\ t - fs[x].created_at > AccessedGrace}

RECURSIVE CleanupAll(_, _, _)
CleanupAll(st, ids, failing) ==
    IF ids = {} THEN st
    ELSE LET x == CHOOSE y \in ids : TRUE
         IN CleanupAll(cleanup_file(st, x, x \notin failing), ids \ {x}, failing)

\* cleanup_old_files; failing: the ids whose rmtree raises
cleanup_old_files(st, age_limit, t, failing) ==
    CleanupAll(st, OldFiles(st.files, age_limit, t), failing)

-----------------------------------------------------------------------------
(* download_video_async: the except clause's message *)

BotMessage == <<"YouTube is blocking download requests. Please try again later.">>
FormatMessage == <<"The requested quality is not available. Please try a lower quality.">>
ForbiddenMessage == <<"Access denied. This video may be restricted.">>
TimeoutMessage == <<"Connection timeout. This may happen with very long videos. Please try again.">>
NoSpaceMessage == <<"Server storage full. Please try again later.">>

\* mutant: the 403 test comes before the format test
DownloadErrorMessageReordered(text) ==
    IF Contains(text, BotPhrase) THEN BotMessage
    ELSE IF Contains(text, ForbiddenPhrase) THEN ForbiddenMessage
    ELSE IF Contains(text, FormatPhrase) THEN FormatMessage
    ELSE IF Contains(text, BrokenPhrase) \/ ContainsTimeoutLower(text) THEN TimeoutMessage
    ELSE IF Contains(text, NoSpacePhrase) THEN NoSpaceMessage
    ELSE text

DownloadErrorMessage(text) ==
    IF Contains(text, BotPhrase) THEN BotMessage
    ELSE IF Contains(text, FormatPhrase) THEN FormatMessage
    ELSE IF Contains(text, ForbiddenPhrase) THEN ForbiddenMessage
    ELSE IF Contains(text, BrokenPhrase) \/ ContainsTimeoutLower(text) THEN TimeoutMessage
    ELSE IF Contains(text, NoSpacePhrase) THEN NoSpaceMessage
    ELSE text

-----------------------------------------------------------------------------
(* Initial state: the module-level objects right after import *)

NewJob == [pc |-> "new", attempt |-> 0, err |-> None, temp_dir |-> None, path |-> None]

NoResponse == [op |-> "none", id |-> 0, code |-> 0]

\* task_manager._lock held by nobody
Free == 0

\* A thread that is not inside update_task
IdleCall == [pc |-> "idle", task_id |-> 0, kw |-> <<>>]

\* No task created yet, no update_task call made
NoAudit == [written |-> <<>>, committed |-> <<>>]

\* shutdown_event has not been called
NotShuttingDown == [pc |-> "off", start_time |-> 0, wake |-> 0, sweeps |-> 0]

InitCallers ==
    /\ lock = Free
    /\ calls = [c \in Threads |-> IdleCall]
    /\ audit = NoAudit
    /\ tool_calls = 0
    /\ shutdown = NotShuttingDown
    /\ reaper = [wake |-> ReaperPeriod, sweeping |-> TRUE]

Init ==
    /\ InitCallers
    /\ tasks = <<>>
    /\ active_downloads = 0
    /\ sem = SemaphoreSlots
    /\ files = <<>>
    /\ max_file_age = DefaultMaxFileAge
    /\ job = [j \in Jobs |-> NewJob]
    /\ dirs = [j \in Jobs |-> "absent"]
    /\ timers = {}
    /\ response = NoResponse
    /\ now = 0
    /\ registered = {}
    /\ reclaimed = {}
    /\ reaped = {}

\* Time passes: the clock reaches the later instant t
Tick(t) ==
    /\ t > now
    /\ now' = t
    /\ UNCHANGED <<tasks, active_downloads, sem, files, max_file_age, job, dirs,
                   timers, response, registered, reclaimed, reaped>>
    /\ UNCHANGED callers

-----------------------------------------------------------------------------
(* POST /download: _process_download with a valid URL.  Requests are       *)
(* numbered in their order of arrival; the fresh uuid4 task id of the j-th *)
(* request is j.                                                           *)

ProcessDownload(j) ==
    /\ job[j].pc = "new"
    /\ j > 1 => job[j - 1].pc # "new"
    /\ tasks' = create_task(tasks, j, now)
    /\ job' = [job EXCEPT ![j].pc = "queued"]
    /\ response' = [op |-> "download", id |-> j, code |-> 200]
    /\ UNCHANGED <<active_downloads, sem, files, max_file_age, dirs, timers, now,
                   registered, reclaimed, reaped>>
    /\ UNCHANGED callers

-----------------------------------------------------------------------------
(* download_video_async, on the event loop *)

\* async with self.download_semaphore: entry
Acquire(j) ==
    /\ job[j].pc = "queued"
    /\ sem > 0
    /\ sem' = sem - 1
    /\ job' = [job EXCEPT ![j].pc = "poll"]
    /\ UNCHANGED <<tasks, active_downloads, files, max_file_age, dirs, timers,
                   response, now, registered, reclaimed, reaped>>
    /\ UNCHANGED callers

\* One evaluation of the while condition: either the body (queued message,
\* sleep) or the code from increment_active_downloads to run_in_executor
Admit(j) ==
    /\ job[j].pc = "poll"
    /\ IF can_start_download(active_downloads)
       THEN /\ active_downloads' = increment_active_downloads(active_downloads)
            /\ tasks' = update_task(
                   update_task(tasks, j,
                       [status |-> PROCESSING, progress |-> 5,
                        message |-> "Starting download..."], now),
                   j, [progress |-> 10, message |-> "Preparing download..."], now)
            /\ job' = [job EXCEPT ![j].pc = "thread"]
       ELSE /\ tasks' = update_task(tasks, j,
                   [status |-> PENDING, message |-> "Waiting for download slot..."], now)
            /\ UNCHANGED <<active_downloads, job>>
    /\ UNCHANGED <<sem, files, max_file_age, dirs, timers, response, now,
                   registered, reclaimed, reaped>>
    /\ UNCHANGED callers

\* mutant: the task is marked completed without the file being registered
FinishOkUnregistered(j) ==
    /\ job[j].pc = "returned"
    /\ tasks' = update_task(tasks, j,
           [status |-> COMPLETED, progress |-> 100,
            message |-> "Download completed successfully!",
            filename |-> Some(job[j].path[1].name),
            download_url |-> Some(<<"/download-file/", j>>)], now)
    /\ active_downloads' = decrement_active_downloads(active_downloads)
    /\ sem' = sem + 1
    /\ job' = [job EXCEPT ![j].pc = "done"]
    /\ UNCHANGED <<files, registered, max_file_age, dirs, timers, response, now,
                   reclaimed, reaped>>
    /\ UNCHANGED callers

\* The code after run_in_executor returned the path: register, mark completed;
\* then the finally clause and the semaphore's release
FinishOk(j) ==
    /\ job[j].pc = "returned"
    /\ LET filename == job[j].path[1]
       IN /\ files' = register_file(files, dirs, j, filename, filename.dir, now)
          /\ tasks' = update_task(tasks, j,
                 [status |-> COMPLETED, progress |-> 100,
                  message |-> "Download completed successfully!",
                  filename |-> Some(filename.name),
                  download_url |-> Some(<<"/download-file/", j>>)], now)
    /\ registered' = registered \cup DOMAIN files'
    /\ active_downloads' = decrement_active_downloads(active_downloads)
    /\ sem' = sem + 1
    /\ job' = [job EXCEPT ![j].pc = "done"]
    /\ UNCHANGED <<max_file_age, dirs, timers, response, now, reclaimed, reaped>>
    /\ UNCHANGED callers

\* mutant: the counter is released at the end of the try block, not in finally
ExceptNoFinally(j, text) ==
    /\ tasks' = update_task(tasks, j,
           [status |-> FAILED, progress |-> 0, message |-> "Download failed",
            error |-> Some(DownloadErrorMessage(text))], now)
    /\ UNCHANGED active_downloads
    /\ sem' = sem + 1
    /\ job' = [job EXCEPT ![j].pc = "done", ![j].err = Some(text)]

\* The except clause, then the finally clause and the semaphore's release
ExceptFinally(j, text) ==
    /\ tasks' = update_task(tasks, j,
           [status |-> FAILED, progress |-> 0, message |-> "Download failed",
            error |-> Some(DownloadErrorMessage(text))], now)
    /\ active_downloads' = decrement_active_downloads(active_downloads)
    /\ sem' = sem + 1
    /\ job' = [job EXCEPT ![j].pc = "done", ![j].err = Some(text)]

\* run_in_executor re-raises the thread's exception
FinishRaised(j) ==
    /\ job[j].pc = "raised"
    /\ ExceptFinally(j, job[j].err[1])
    /\ UNCHANGED <<files, max_file_age, dirs, timers, response, now, registered,
                   reclaimed, reaped>>
    /\ UNCHANGED callers

\* register_file raises: os.path.getsize fails with an OSError
FinishRegisterFail(j) ==
    /\ job[j].pc = "returned"
    /\ ExceptFinally(j, StatErrorText)
    /\ UNCHANGED <<files, max_file_age, dirs, timers, response, now, registered,
                   reclaimed, reaped>>
    /\ UNCHANGED callers

-----------------------------------------------------------------------------
(* _download_video_sync, on an executor thread *)

Min(a, b) == IF a < b THEN a ELSE b

\* mutant: the progress is not capped
progress_hook_uncapped(ts, task_id, d, t) ==
    IF d.status = "downloading"
    THEN IF d.total_bytes # None
         THEN update_task(ts, task_id,
                  [progress |-> (d.downloaded_bytes * 80) \div d.total_bytes[1] + 15,
                   message |-> "Downloading...",
                   downloaded_bytes |-> d.downloaded_bytes,
                   total_bytes |-> d.total_bytes[1]], t)
         ELSE IF d.percent # None /\ d.percent[1] >= 0
              THEN update_task(ts, task_id,
                       [progress |-> (d.percent[1] * 8) \div 100 + 15,
                        message |-> "Downloading..."], t)
              ELSE ts
    ELSE IF d.status = "finished"
         THEN update_task(ts, task_id,
                  [progress |-> 98, message |-> "Processing downloaded file..."], t)
         ELSE ts

\* progress_hook(d).  d.total_bytes is None when the key is missing or falsy;
\* d.percent is None when '_percent_str' is missing, else <<tenths>> of a
\* percent, or <<-1>> for a text float() rejects
progress_hook(ts, task_id, d, t) ==
    IF d.status = "downloading"
    THEN IF d.total_bytes # None
         THEN update_task(ts, task_id,
                  [progress |-> Min((d.downloaded_bytes * 80) \div d.total_bytes[1] + 15, 95),
                   message |-> "Downloading...",
                   downloaded_bytes |-> d.downloaded_bytes,
                   total_bytes |-> d.total_bytes[1]], t)
         ELSE IF d.percent # None /\ d.percent[1] >= 0
              THEN update_task(ts, task_id,
                       [progress |-> Min((d.percent[1] * 8) \div 100 + 15, 95),
                        message |-> "Downloading..."], t)
              ELSE ts
    ELSE IF d.status = "finished"
         THEN update_task(ts, task_id,
                  [progress |-> 98, message |-> "Processing downloaded file..."], t)
         ELSE ts

\* mutant: the message numbers the attempt that failed, not the next one
RetryMessageOfFailed(attempt) ==
    IF attempt + 1 = 1 THEN "Retrying download... (Attempt 1/3)"
    ELSE "Retrying download... (Attempt 2/3)"

RetryMessage(attempt) ==
    IF attempt + 2 = 2 THEN "Retrying download... (Attempt 2/3)"
    ELSE "Retrying download... (Attempt 3/3)"

\* The except clause of _download_video_sync: remove temp_dir if it was made
\* and still exists (errors of rmtree are swallowed), then re-raise
ThreadRaise(j, text, rm_ok) ==
    /\ dirs' = IF job[j].temp_dir # None
               THEN Rmtree(dirs, job[j].temp_dir[1], rm_ok)
               ELSE dirs
    /\ job' = [job EXCEPT ![j].pc = "raised", ![j].err = Some(text)]

\* The start of the thread: tempfile.mkdtemp, the title probe
\* (extract_info, download=False), get_unique_filename, the tool's options
Prepare(j) ==
    /\ job[j].pc = "thread"
    /\ dirs' = [dirs EXCEPT ![j] = "empty"]
    /\ job' = [job EXCEPT ![j].pc = "download", ![j].temp_dir = Some(j), ![j].attempt = 0]
    /\ UNCHANGED <<tasks, active_downloads, sem, files, max_file_age, timers,
                   response, now, registered, reclaimed, reaped>>
    /\ UNCHANGED callers

\* mkdtemp raises (made = FALSE: temp_dir is still None), or the directory is
\* made and the title probe raises
PrepareFail(j, text, made, rm_ok) ==
    /\ job[j].pc = "thread"
    /\ dirs' = IF made THEN Rmtree([dirs EXCEPT ![j] = "empty"], j, rm_ok) ELSE dirs
    /\ job' = [job EXCEPT ![j].pc = "raised", ![j].err = Some(text),
                          ![j].temp_dir = IF made THEN Some(j) ELSE None]
    /\ UNCHANGED <<tasks, active_downloads, sem, files, max_file_age, timers,
                   response, now, registered, reclaimed, reaped>>
    /\ UNCHANGED callers

\* The tool calls progress_hook during ydl.download
ProgressHook(j, d) ==
    /\ job[j].pc = "download"
    /\ tasks' = progress_hook(tasks, j, d, now)
    /\ UNCHANGED <<active_downloads, sem, files, max_file_age, job, dirs, timers,
                   response, now, registered, reclaimed, reaped>>
    /\ UNCHANGED callers

\* ydl.download returns: break.  produced: what the tool left in temp_dir
AttemptOk(j, produced) ==
    /\ job[j].pc = "download"
    /\ dirs' = [dirs EXCEPT ![j] = produced]
    /\ job' = [job EXCEPT ![j].pc = "collect"]
    /\ UNCHANGED <<tasks, active_downloads, sem, files, max_file_age, timers,
                   response, now, registered, reclaimed, reaped>>
    /\ UNCHANGED callers

\* ydl.download raises in attempt job[j].attempt (0-based)
AttemptFail(j, text, rm_ok) ==
    /\ job[j].pc = "download"
    /\ IF job[j].attempt < max_retries - 1
       THEN /\ tasks' = update_task(tasks, j,
                   [message |-> RetryMessage(job[j].attempt)], now)
            /\ job' = [job EXCEPT ![j].attempt = @ + 1]
            /\ UNCHANGED dirs
       ELSE /\ ThreadRaise(j, text, rm_ok)
            /\ UNCHANGED tasks
    /\ UNCHANGED <<active_downloads, sem, files, max_file_age, timers, response,
                   now, registered, reclaimed, reaped>>
    /\ UNCHANGED callers

\* After the retry loop: find the downloaded file by the unique token, else
\* the newest file created in the last 30 minutes (recent), else "Downloaded
\* file not found"; rename it to the final name; return final_path
Collect(j, recent, name, rm_ok) ==
    /\ job[j].pc = "collect"
    /\ IF dirs[j] = "token" \/ (dirs[j] = "stray" /\ recent)
       THEN /\ dirs' = [dirs EXCEPT ![j] = "final"]
            /\ job' = [job EXCEPT ![j].pc = "returned",
                                  ![j].path = Some([dir |-> j, name |-> name])]
       ELSE ThreadRaise(j, NotFoundText, rm_ok)
    /\ UNCHANGED <<tasks, active_downloads, sem, files, max_file_age, timers,
                   response, now, registered, reclaimed, reaped>>
    /\ UNCHANGED callers

\* os.listdir, os.remove, os.rename or os.path.getsize raises
CollectFail(j, text, rm_ok) ==
    /\ job[j].pc = "collect"
    /\ ThreadRaise(j, text, rm_ok)
    /\ UNCHANGED <<tasks, active_downloads, sem, files, max_file_age, timers,
                   response, now, registered, reclaimed, reaped>>
    /\ UNCHANGED callers

-----------------------------------------------------------------------------
(* HTTP handlers on the registries *)

MaxFetches == 2

\* DELETE /task/{task_id}
DeleteTask(task_id) ==
    /\ IF task_id \in DOMAIN tasks
       THEN /\ tasks' = [x \in DOMAIN tasks \ {task_id} |-> tasks[x]]
            /\ response' = [op |-> "delete_task", id |-> task_id, code |-> 200]
       ELSE /\ response' = [op |-> "delete_task", id |-> task_id, code |-> 404]
            /\ UNCHANGED tasks
    /\ UNCHANGED <<active_downloads, sem, files, max_file_age, job, dirs, timers,
                   now, registered, reclaimed, reaped>>
    /\ UNCHANGED callers

\* GET /download-file/{task_id}: 404 without a record or without the file on
\* disk; else mark_downloaded, the FileResponse, and cleanup_after_download
\* scheduled to wake after its sleep
DownloadFile(task_id) ==
    /\ LET file_info == get_file_info(files, task_id)
       IN IF file_info = None
          THEN /\ response' = [op |-> "download_file", id |-> task_id, code |-> 404]
               /\ UNCHANGED <<files, timers>>
          ELSE IF ~FileExists(dirs, file_info[1].file_path.dir)
               THEN /\ response' = [op |-> "download_file", id |-> task_id, code |-> 404]
                    /\ UNCHANGED <<files, timers>>
               ELSE /\ file_info[1].access_count < MaxFetches
                    /\ files' = mark_downloaded(files, task_id)
                    /\ timers' = timers \cup {<<task_id, now + ReclaimDelay>>}
                    /\ response' = [op |-> "download_file", id |-> task_id, code |-> 200]
    /\ UNCHANGED <<tasks, active_downloads, sem, max_file_age, job, dirs, now,
                   registered, reclaimed, reaped>>
    /\ UNCHANGED callers

\* cleanup_after_download wakes from its sleep and calls cleanup_file
CleanupAfterDownload(tm, rm_ok) ==
    /\ tm \in timers
    /\ now >= tm[2]
    /\ LET st == cleanup_file([files |-> files, dirs |-> dirs, reclaimed |-> reclaimed],
                              tm[1], rm_ok)
       IN /\ files' = st.files
          /\ dirs' = st.dirs
          /\ reclaimed' = st.reclaimed
    /\ timers' = timers \ {tm}
    /\ UNCHANGED <<tasks, active_downloads, sem, max_file_age, job, response, now,
                   registered, reaped>>
    /\ UNCHANGED callers

-----------------------------------------------------------------------------
(* The periodic reapers *)

\* One pass of cleanup_temp_files: cleanup_old_files, then the threshold for
\* the next pass from the disk usage (disk_high: disk.percent > 90)
CleanupTempFiles(failing, disk_high) ==
    /\ LET st == cleanup_old_files([files |-> files, dirs |-> dirs, reclaimed |-> reclaimed],
                                   max_file_age, now, failing)
       IN /\ files' = st.files
          /\ dirs' = st.dirs
          /\ reclaimed' = st.reclaimed
    /\ max_file_age' = IF disk_high THEN ReducedMaxFileAge ELSE DefaultMaxFileAge
    /\ UNCHANGED <<tasks, active_downloads, sem, job, timers, response, now,
                   registered, reaped>>
    /\ UNCHANGED callers

\* mutant: high memory usage lowers the threshold too
PassThresholdOnMemory(age, memory, disk) ==
    IF memory = None \/ disk = None THEN age
    ELSE IF disk[1] > 90 \/ memory[1] > 85 THEN ReducedMaxFileAge ELSE DefaultMaxFileAge

\* max_file_age after a pass of cleanup_temp_files.  memory and disk are the
\* percentages psutil reports, None when the psutil call raised (the except
\* clause is entered before line 860 or 862 is reached)
PassThreshold(age, memory, disk) ==
    IF memory = None \/ disk = None THEN age
    ELSE IF disk[1] > 90 THEN ReducedMaxFileAge ELSE DefaultMaxFileAge

\* One pass of cleanup_temp_files with the readings of psutil: the sweep with
\* the threshold of the last pass, the readings, the new threshold; an
\* exception is caught inside the loop, which sleeps and goes on
ReaperPass(failing, memory, disk) ==
    /\ reaper.sweeping
    /\ LET st == cleanup_old_files([files |-> files, dirs |-> dirs, reclaimed |-> reclaimed],
                                   max_file_age, now, failing)
       IN /\ files' = st.files
          /\ dirs' = st.dirs
          /\ reclaimed' = st.reclaimed
    /\ max_file_age' = PassThreshold(max_file_age, memory, disk)
    /\ response' = [op |-> "cleanup_temp_files", id |-> 0, code |-> 0,
                    raised |-> (memory = None \/ disk = None)]
    /\ UNCHANGED <<tasks, active_downloads, sem, job, timers, now, registered, reaped,
                   lock, calls, audit, tool_calls, shutdown, reaper>>

\* One pass of cleanup_task: cleanup_old_tasks
CleanupTask ==
    /\ tasks' = cleanup_old_tasks(tasks, now)
    /\ reaped' = reaped \cup (DOMAIN tasks \ DOMAIN tasks')
    /\ UNCHANGED <<active_downloads, sem, files, max_file_age, job, dirs, timers,
                   response, now, registered, reclaimed>>
    /\ UNCHANGED callers

-----------------------------------------------------------------------------
(* Inputs *)

Phrases == {BotPhrase, FormatPhrase, ForbiddenPhrase, BrokenPhrase, TimeoutLower,
            TimeoutUpper, NoSpacePhrase, "ERROR: unable to download video data"}

\* every error text of one or two phrases
ErrorTexts == {<<p>> : p \in Phrases} \cup {<<p, q>> : p \in Phrases, q \in Phrases}

Downloading(done, total) ==
    [status |-> "downloading", downloaded_bytes |-> done, total_bytes |-> total,
     percent |-> None]

-----------------------------------------------------------------------------
(* One step of the download job of request j.  The tool's behaviour is     *)
(* drawn from the given sets: error texts, outputs left in the temporary   *)
(* directory, final names, and whether rmtree works.  The tool's progress  *)
(* events are the separate action ProgressHook.                            *)

JobStep(j, Errs, Prods, Names, RmOks) ==
    \/ ProcessDownload(j)
    \/ Acquire(j)
    \/ Admit(j)
    \/ Prepare(j)
    \/ \E text \in Errs, made \in BOOLEAN, rm_ok \in RmOks : PrepareFail(j, text, made, rm_ok)
    \/ \E out \in Prods : AttemptOk(j, out)
    \/ \E text \in Errs, rm_ok \in RmOks : AttemptFail(j, text, rm_ok)
    \/ \E recent \in BOOLEAN, name \in Names, rm_ok \in RmOks : Collect(j, recent, name, rm_ok)
    \/ \E text \in Errs, rm_ok \in RmOks : CollectFail(j, text, rm_ok)
    \/ FinishOk(j)
    \/ FinishRegisterFail(j)
    \/ FinishRaised(j)

-----------------------------------------------------------------------------
(* Spec: MaxJobs download requests, more than the limiter admits at once   *)

OneError == {<<ForbiddenPhrase>>}

Next ==
    \E j \in Jobs : JobStep(j, OneError, {"token"}, {"title.mp4"}, {TRUE})

Spec == Init /\ [][Next]_vars

\* SpecAdmission: the same requests; the event loop runs a coroutine that
\* can enter the semaphore or evaluate its while condition, while the
\* downloads in the executor threads may take forever
SpecAdmission ==
    /\ Init
    /\ [][Next]_vars
    /\ \A j \in Jobs : WF_vars(Acquire(j)) /\ WF_vars(Admit(j))

\* SpecFair: MaxJobs requests of which the first may fail at any stage,
\* under fair scheduling: the event loop runs every coroutine that can make
\* a step, every executor thread makes its next step, and every invocation
\* of the tool returns or raises
FairStep(j) ==
    JobStep(j, IF j = 1 THEN OneError ELSE {}, {"token"}, {"title.mp4"}, {TRUE})

NextFair == \E j \in Jobs : FairStep(j)

SpecFair ==
    /\ Init
    /\ [][NextFair]_vars
    /\ \A j \in Jobs : WF_vars(FairStep(j))

-----------------------------------------------------------------------------
(* SpecFailure: the first request's job fails with any error text at any   *)
(* stage while further requests run, and a client deletes tasks            *)

NextFailure ==
    \/ JobStep(1, ErrorTexts, {"token", "empty"}, {"title.mp4"}, BOOLEAN)
    \/ \E j \in 2..SmallJobs : JobStep(j, OneError, {"token"}, {"title.mp4"}, {TRUE})
    \/ \E j \in 1..SmallJobs : DeleteTask(j)

SpecFailure == Init /\ [][NextFailure]_vars

-----------------------------------------------------------------------------
(* SpecService: SmallJobs requests with progress events, a client that     *)
(* deletes tasks, the task reaper, and time passing across the retention   *)
(* window                                                                  *)

SomeEvents ==
    { Downloading(1, Some(2)),
      [status |-> "finished", downloaded_bytes |-> 2, total_bytes |-> Some(2),
       percent |-> None] }

TaskInstants == {1, cleanup_interval + 1}

NextService ==
    \/ \E j \in 1..SmallJobs : JobStep(j, OneError, {"token"}, {"title.mp4"}, {TRUE})
    \/ \E j \in 1..SmallJobs, e \in SomeEvents : ProgressHook(j, e)
    \/ \E j \in 1..SmallJobs : DeleteTask(j)
    \/ CleanupTask
    \/ \E t \in TaskInstants : Tick(t)

SpecService == Init /\ [][NextService]_vars

\* SpecProgress: one download whose tool reports every byte count up to
\* MaxBytes, also more bytes than the total, and percentages below, at and
\* above 100, in tenths
Percents == {None, <<0 - 1>>, <<0>>, <<505>>, <<1000>>, <<1500>>}

ProgressEvents ==
    {[status |-> "downloading", downloaded_bytes |-> done, total_bytes |-> total,
      percent |-> percent] :
        done \in 0..MaxBytes, total \in {None} \cup {Some(n) : n \in 1..MaxBytes},
        percent \in Percents}
    \cup {[status |-> "finished", downloaded_bytes |-> MaxBytes,
           total_bytes |-> Some(MaxBytes), percent |-> None]}

NextProgress ==
    \/ JobStep(1, OneError, {"token"}, {"title.mp4"}, {TRUE})
    \/ \E e \in ProgressEvents : ProgressHook(1, e)

SpecProgress == Init /\ [][NextProgress]_vars

\* cleanup_task at the end of its sleep: one pass of cleanup_old_tasks, then
\* the next sleep of ReaperPeriod seconds
PeriodicCleanupTask ==
    /\ now >= reaper.wake
    /\ tasks' = cleanup_old_tasks(tasks, now)
    /\ reaped' = reaped \cup (DOMAIN tasks \ DOMAIN tasks')
    /\ reaper' = [reaper EXCEPT !.wake = now + ReaperPeriod]
    /\ UNCHANGED <<active_downloads, sem, files, max_file_age, job, dirs, timers,
                   response, now, registered, reclaimed, lock, calls, audit,
                   tool_calls, shutdown>>

\* SpecReaper: SmallJobs downloads within the first half hour, a client that
\* deletes tasks, and the task reaper waking every ReaperPeriod seconds
\* until the retention window has passed for every task
ReaperInstants == {k * ReaperPeriod : k \in 1..(cleanup_interval \div ReaperPeriod + 2)}

\* the clock reaches the end of the reaper's sleep
ReaperClock == \E t \in ReaperInstants : t <= reaper.wake /\ Tick(t)

NextReaper ==
    \/ /\ now <= ReaperPeriod
       /\ \E j \in 1..SmallJobs : JobStep(j, OneError, {"token"}, {"title.mp4"}, {TRUE})
    \/ \E j \in 1..SmallJobs : DeleteTask(j)
    \/ PeriodicCleanupTask
    \/ ReaperClock

\* Scheduling: time passes, and the event loop resumes cleanup_task when its
\* sleep has ended
SpecReaper ==
    /\ Init
    /\ [][NextReaper]_vars
    /\ WF_vars(ReaperClock)
    /\ WF_vars(PeriodicCleanupTask)

-----------------------------------------------------------------------------
(* SpecFiles: the file registry after SmallJobs downloads have completed,  *)
(* each at an instant of its own; then a client that fetches the files,    *)
(* the delayed reclaims, the file reaper under either disk usage, rmtree   *)
(* working or not, and time passing across the file age thresholds         *)

CreateInstants == {0, ReclaimDelay}

FileInstants == {AccessedGrace, AccessedGrace + 1,
                 ReducedMaxFileAge, ReducedMaxFileAge + 1,
                 DefaultMaxFileAge, DefaultMaxFileAge + 1}

FinalPath(j) == [dir |-> j, name |-> "title.mp4"]

\* The task of request j, created and completed at instant t
CompletedTask(ts, j, t) ==
    update_task(
        update_task(create_task(ts, j, t), j,
            [status |-> PROCESSING, progress |-> 10, message |-> "Preparing download..."], t),
        j, [status |-> COMPLETED, progress |-> 100,
            message |-> "Download completed successfully!",
            filename |-> Some(FinalPath(j).name),
            download_url |-> Some(<<"/download-file/", j>>)], t)

RECURSIVE CompletedTasks(_, _)
CompletedTasks(n, at) ==
    IF n = 0 THEN <<>> ELSE CompletedTask(CompletedTasks(n - 1, at), n, at[n])

RECURSIVE RegisteredFiles(_, _, _)
RegisteredFiles(n, at, ds) ==
    IF n = 0 THEN <<>>
    ELSE register_file(RegisteredFiles(n - 1, at, ds), ds, n, FinalPath(n), n, at[n])

InitFiles ==
    \E at \in [1..SmallJobs -> CreateInstants] :
        /\ \A j \in 1..SmallJobs : j > 1 => at[j - 1] <= at[j]
        /\ dirs = [j \in Jobs |-> IF j <= SmallJobs THEN "final" ELSE "absent"]
        /\ tasks = CompletedTasks(SmallJobs, at)
        /\ files = RegisteredFiles(SmallJobs, at, dirs)
        /\ job = [j \in Jobs |->
                    IF j <= SmallJobs
                    THEN [pc |-> "done", attempt |-> 0, err |-> None,
                          temp_dir |-> Some(j), path |-> Some(FinalPath(j))]
                    ELSE NewJob]
        /\ now = at[SmallJobs]
        /\ registered = 1..SmallJobs
    /\ active_downloads = 0
    /\ sem = SemaphoreSlots
    /\ max_file_age = DefaultMaxFileAge
    /\ timers = {}
    /\ response = NoResponse
    /\ reclaimed = {}
    /\ reaped = {}
    /\ InitCallers

NextFiles ==
    \/ \E j \in 1..SmallJobs : DownloadFile(j)
    \/ \E tm \in timers, rm_ok \in BOOLEAN : CleanupAfterDownload(tm, rm_ok)
    \/ \E failing \in SUBSET (1..SmallJobs), disk_high \in BOOLEAN :
          CleanupTempFiles(failing, disk_high)
    \/ \E t \in FileInstants : Tick(t)

SpecFiles == InitFiles /\ [][NextFiles]_vars

\* Instants for the life of a record: after a delayed reclaim is due, past
\* the 600 s of a downloaded file, and past max_file_age for every record
ReclaimInstants == {2 * ReclaimDelay, AccessedGrace + 1,
                    DefaultMaxFileAge + ReclaimDelay + 1}

NextReclaim ==
    \/ \E j \in 1..SmallJobs : DownloadFile(j)
    \/ \E tm \in timers, rm_ok \in BOOLEAN : CleanupAfterDownload(tm, rm_ok)
    \/ \E failing \in SUBSET (1..SmallJobs), disk_high \in BOOLEAN :
          CleanupTempFiles(failing, disk_high)
    \/ \E t \in ReclaimInstants : Tick(t)

\* Scheduling: time passes; the cleanup_temp_files loop keeps making passes
\* (while True, every exception caught); a sleeping cleanup_after_download
\* coroutine wakes
SpecFilesFair ==
    /\ InitFiles
    /\ [][NextReclaim]_vars
    /\ WF_vars(\E t \in ReclaimInstants : Tick(t))
    /\ WF_vars(\E failing \in SUBSET (1..SmallJobs), disk_high \in BOOLEAN :
                  CleanupTempFiles(failing, disk_high))
    /\ WF_vars(\E tm \in timers, rm_ok \in BOOLEAN : CleanupAfterDownload(tm, rm_ok))

\* SpecSweep: the passes of the file reaper over the registered files for
\* every reading of psutil, at and above each limit, and its failures
MemoryReadings == {None, Some(85), Some(86)}

DiskReadings == {None, Some(90), Some(91)}

SweepInstants == {ReducedMaxFileAge + 1, DefaultMaxFileAge + 1,
                  DefaultMaxFileAge + ReclaimDelay + 1}

NextSweep ==
    \/ \E failing \in SUBSET (1..SmallJobs), memory \in MemoryReadings,
          disk \in DiskReadings : ReaperPass(failing, memory, disk)
    \/ \E j \in 1..SmallJobs : DownloadFile(j)
    \/ \E t \in SweepInstants : Tick(t)

SpecSweep == InitFiles /\ [][NextSweep]_vars

-----------------------------------------------------------------------------
(* Calls on the task registry from executor threads and from clients.      *)
(* update_task holds task_manager._lock from line 78 to line 81; its three *)
(* statements are three steps of the calling thread.  create_task,         *)
(* get_task and cleanup_old_tasks take the lock too and run on the event   *)
(* loop: they wait while a thread holds it.  delete_task and get_all_tasks *)
(* read and write task_manager.tasks without the lock.                     *)

TaskIds == 1..SmallJobs

\* A field of a function extended or overwritten
Put(f, x, v) == [y \in DOMAIN f \cup {x} |-> IF y = x THEN v ELSE f[y]]

\* The task value v is recorded as the one the registry holds for x now
\* that a call on x has returned
Commit(au, x, v) == [au EXCEPT !.committed = Put(@, x, v)]

\* The fields of kw are recorded as the last ones written to task x
Wrote(au, x, kw) ==
    LET old == IF x \in DOMAIN au.written THEN au.written[x] ELSE <<>>
    IN [au EXCEPT !.written =
           Put(@, x, [f \in DOMAIN old \cup DOMAIN kw |->
                         IF f \in DOMAIN kw THEN kw[f] ELSE old[f]])]

\* get_task and get_all_tasks hand out the dicts of the registry themselves
\* (self.tasks.get(task_id), list(self.tasks.values())): until the response
\* body is encoded, it shows what the dicts hold
SharedDict(resp, ts) ==
    IF resp.op = "get_task_status" /\ resp.code = 200 /\ ~resp.encoded
    THEN IF resp.id \in DOMAIN ts THEN [resp EXCEPT !.task = ts[resp.id]] ELSE resp
    ELSE IF resp.op = "get_all_tasks" /\ ~resp.encoded
         THEN [resp EXCEPT !.tasks =
                  [x \in DOMAIN @ |-> IF x \in DOMAIN ts THEN ts[x] ELSE @[x]]]
         ELSE resp

\* create_task(task_id, ...), also with an id the registry already holds
CreateTaskCall(task_id) ==
    /\ lock = Free
    /\ tasks' = create_task(tasks, task_id, now)
    /\ audit' = Commit([audit EXCEPT !.written = Put(@, task_id, <<>>)],
                       task_id, tasks'[task_id])
    /\ response' = [op |-> "create_task", id |-> task_id, code |-> 200]
    /\ UNCHANGED <<active_downloads, sem, files, max_file_age, job, dirs, timers,
                   now, registered, reclaimed, reaped, lock, calls, tool_calls, shutdown, reaper>>

\* GET /task/{task_id}
GetTaskStatus(task_id) ==
    /\ lock = Free
    /\ LET task == get_task(tasks, task_id)
       IN response' =
             IF task = None
             THEN [op |-> "get_task_status", id |-> task_id, code |-> 404]
             ELSE [op |-> "get_task_status", id |-> task_id, code |-> 200,
                   task |-> task[1], encoded |-> FALSE]
    /\ UNCHANGED <<tasks, active_downloads, sem, files, max_file_age, job, dirs,
                   timers, now, registered, reclaimed, reaped>>
    /\ UNCHANGED callers

\* GET /tasks
GetAllTasks ==
    /\ response' = [op |-> "get_all_tasks", id |-> 0, code |-> 200,
                    tasks |-> tasks, total_tasks |-> Cardinality(DOMAIN tasks),
                    encoded |-> FALSE]
    /\ UNCHANGED <<tasks, active_downloads, sem, files, max_file_age, job, dirs,
                   timers, now, registered, reclaimed, reaped>>
    /\ UNCHANGED callers

\* The framework encodes the returned body: the client sees the dicts as
\* they are at this moment
Encode ==
    /\ response.op \in {"get_task_status", "get_all_tasks"}
    /\ response.code = 200
    /\ ~response.encoded
    /\ response' = [response EXCEPT !.encoded = TRUE]
    /\ UNCHANGED <<tasks, active_downloads, sem, files, max_file_age, job, dirs,
                   timers, now, registered, reclaimed, reaped>>
    /\ UNCHANGED callers

\* A thread whose update_task call on x ended with KeyError
Raised(x) == [pc |-> "raised", task_id |-> x, kw |-> <<>>]

\* mutant: update_task without `with self._lock`
UpdateEnterUnlocked(c, task_id, kw) ==
    /\ calls[c].pc \in {"idle", "raised"}
    /\ IF task_id \in DOMAIN tasks
       THEN calls' = [calls EXCEPT ![c] = [pc |-> "checked", task_id |-> task_id, kw |-> kw]]
       ELSE UNCHANGED calls
    /\ UNCHANGED <<tasks, active_downloads, sem, files, max_file_age, job, dirs,
                   timers, response, now, registered, reclaimed, reaped, lock,
                   audit, tool_calls, shutdown, reaper>>

\* Thread c enters update_task(task_id, **kw): takes the lock and tests
\* `task_id in self.tasks` (line 79)
UpdateEnter(c, task_id, kw) ==
    /\ calls[c].pc \in {"idle", "raised"}
    /\ lock = Free
    /\ IF task_id \in DOMAIN tasks
       THEN /\ lock' = c
            /\ calls' = [calls EXCEPT ![c] = [pc |-> "checked", task_id |-> task_id, kw |-> kw]]
       ELSE UNCHANGED <<lock, calls>>
    /\ UNCHANGED <<tasks, active_downloads, sem, files, max_file_age, job, dirs,
                   timers, response, now, registered, reclaimed, reaped, audit,
                   tool_calls, shutdown, reaper>>

\* self.tasks[task_id].update(kwargs) (line 80): KeyError when the task is
\* no longer in the registry
UpdateWrite(c) ==
    /\ calls[c].pc = "checked"
    /\ LET x == calls[c].task_id
       IN IF x \in DOMAIN tasks
          THEN /\ tasks' = [tasks EXCEPT ![x] = DictUpdate(@, calls[c].kw)]
               /\ audit' = Wrote(audit, x, calls[c].kw)
               /\ calls' = [calls EXCEPT ![c].pc = "written"]
               /\ response' = SharedDict(response, tasks')
               /\ UNCHANGED lock
          ELSE /\ calls' = [calls EXCEPT ![c] = Raised(x)]
               /\ lock' = Free
               /\ UNCHANGED <<tasks, audit, response>>
    /\ UNCHANGED <<active_downloads, sem, files, max_file_age, job, dirs, timers,
                   now, registered, reclaimed, reaped, tool_calls, shutdown, reaper>>

\* self.tasks[task_id]["updated_at"] = datetime.now() (line 81), then the
\* lock is released; KeyError when the task is no longer in the registry
UpdateStamp(c) ==
    /\ calls[c].pc = "written"
    /\ LET x == calls[c].task_id
       IN IF x \in DOMAIN tasks
          THEN /\ tasks' = [tasks EXCEPT ![x].updated_at = now]
               /\ audit' = Commit(audit, x, tasks'[x])
               /\ calls' = [calls EXCEPT ![c] = IdleCall]
               /\ response' = SharedDict(response, tasks')
          ELSE /\ calls' = [calls EXCEPT ![c] = Raised(x)]
               /\ UNCHANGED <<tasks, audit, response>>
    /\ lock' = Free
    /\ UNCHANGED <<active_downloads, sem, files, max_file_age, job, dirs, timers,
                   now, registered, reclaimed, reaped, tool_calls, shutdown, reaper>>

\* One call on the task registry, or one step of a call in progress, with
\* the task ids, the calling threads and the keyword arguments drawn from
\* the given sets
RegistryStep(Ids, Thr, Kws) ==
    \/ \E x \in Ids : CreateTaskCall(x)
    \/ \E x \in Ids : GetTaskStatus(x)
    \/ GetAllTasks
    \/ Encode
    \/ \E x \in Ids : DeleteTask(x)
    \/ \E c \in Thr, x \in Ids, kw \in Kws : UpdateEnter(c, x, kw)
    \/ \E c \in Thr : UpdateWrite(c)
    \/ \E c \in Thr : UpdateStamp(c)

-----------------------------------------------------------------------------
(* SpecRegistry: MaxThreads threads that call update_task on the same      *)
(* tasks while clients create, read and delete them                        *)

\* The keyword arguments of the calls: progress_hook when the tool has
\* finished, and the retry message
SomeUpdates ==
    {[progress |-> 98, message |-> "Processing downloaded file..."],
     [message |-> RetryMessage(0)]}

NextRegistry ==
    \/ RegistryStep(1..MaxTasks, Threads, SomeUpdates)
    \/ Tick(1)

SpecRegistry == Init /\ [][NextRegistry]_vars

-----------------------------------------------------------------------------
(* SpecLookup: clients that create, read and delete tasks, one thread that *)
(* marks them failed, and the task reaper, with time passing across the    *)
(* retention window                                                        *)

FailedUpdate ==
    [status |-> FAILED, progress |-> 0, message |-> "Download failed",
     error |-> Some(ForbiddenMessage)]

LookupInstants == {1, cleanup_interval + 2}

NextLookup ==
    \/ RegistryStep(TaskIds, {1}, {FailedUpdate})
    \/ lock = Free /\ CleanupTask
    \/ \E t \in LookupInstants : Tick(t)

SpecLookup == Init /\ [][NextLookup]_vars

-----------------------------------------------------------------------------
(* SpecReclaim: the file registry after SmallJobs downloads have           *)
(* completed; cleanup_file called on any id, with rmtree working or not,   *)
(* on records whose directory exists or was removed from outside           *)

\* file_manager.cleanup_file(task_id), as cleanup_old_files and
\* cleanup_after_download call it
CleanupFileCall(task_id, rm_ok) ==
    /\ LET st == [files |-> files, dirs |-> dirs, reclaimed |-> reclaimed]
       IN /\ files' = cleanup_file(st, task_id, rm_ok).files
          /\ dirs' = cleanup_file(st, task_id, rm_ok).dirs
          /\ reclaimed' = cleanup_file(st, task_id, rm_ok).reclaimed
          /\ response' = [op |-> "cleanup_file", id |-> task_id, code |-> 0,
                          raised |-> cleanup_file_raises(st, task_id, rm_ok)]
    /\ UNCHANGED <<tasks, active_downloads, sem, max_file_age, job, timers, now,
                   registered, reaped>>
    /\ UNCHANGED callers

\* Something outside the program (a cleaner of the system's temporary
\* directory) removes the directory d
TmpCleaner(d) ==
    /\ DirExists(dirs, d)
    /\ dirs' = [dirs EXCEPT ![d] = "absent"]
    /\ UNCHANGED <<tasks, active_downloads, sem, files, max_file_age, job, timers,
                   response, now, registered, reclaimed, reaped>>
    /\ UNCHANGED callers

NextCleanup ==
    \/ \E x \in Jobs, rm_ok \in BOOLEAN : CleanupFileCall(x, rm_ok)
    \/ \E d \in Jobs : TmpCleaner(d)
    \/ \E j \in 1..SmallJobs : DownloadFile(j)
    \/ \E tm \in timers, rm_ok \in BOOLEAN : CleanupAfterDownload(tm, rm_ok)
    \/ \E t \in ReclaimInstants : Tick(t)

SpecReclaim == InitFiles /\ [][NextCleanup]_vars

-----------------------------------------------------------------------------
(* URLs.  A URL is a sequence of tokens: the scheme "http", "s", "://",    *)
(* host labels, path prefixes, and single characters.  A pattern of        *)
(* is_valid_youtube_url is a sequence of elements: a literal token, an     *)
(* optional token (`s?`, `(?:www\.)?`), or `[\w-]+`.                        *)

Lit(t) == [kind |-> "lit", tok |-> t]
Opt(t) == [kind |-> "opt", tok |-> t]
WordPlus == [kind |-> "word+", tok |-> ""]

\* The characters [\w-] matches, among the tokens of the model
WordChars == {"a", "B", "7", "_", "-", "s"}

\* re.match: the pattern matches a prefix of u
RECURSIVE Match(_, _)
Match(p, u) ==
    IF p = <<>> THEN TRUE
    ELSE LET e == Head(p)
         IN IF e.kind = "lit"
            THEN u # <<>> /\ Head(u) = e.tok /\ Match(Tail(p), Tail(u))
            ELSE IF e.kind = "opt"
                 THEN \/ u # <<>> /\ Head(u) = e.tok /\ Match(Tail(p), Tail(u))
                      \/ Match(Tail(p), u)
                 ELSE /\ u # <<>>
                      /\ Head(u) \in WordChars
                      /\ Match(Tail(p), Tail(u)) \/ Match(p, Tail(u))

youtube_patterns ==
    << <<Lit("http"), Opt("s"), Lit("://"), Opt("www."), Lit("youtube.com"),
         Lit("/watch?v="), WordPlus>>,
       <<Lit("http"), Opt("s"), Lit("://"), Opt("www."), Lit("youtube.com"),
         Lit("/embed/"), WordPlus>>,
       <<Lit("http"), Opt("s"), Lit("://"), Lit("youtu.be"), Lit("/"), WordPlus>>,
       <<Lit("http"), Opt("s"), Lit("://"), Opt("m."), Lit("youtube.com"),
         Lit("/watch?v="), WordPlus>>,
       <<Lit("http"), Opt("s"), Lit("://"), Opt("www."), Lit("youtube.com"),
         Lit("/v/"), WordPlus>>,
       <<Lit("http"), Opt("s"), Lit("://"), Opt("www."), Lit("youtube.com"),
         Lit("/shorts/"), WordPlus>> >>

is_valid_youtube_url(url) ==
    \E i \in DOMAIN youtube_patterns : Match(youtube_patterns[i], url)

\* str.strip()
RECURSIVE StripLeft(_)
StripLeft(u) == IF u # <<>> /\ Head(u) = " " THEN StripLeft(Tail(u)) ELSE u

RECURSIVE StripRight(_)
StripRight(u) ==
    IF u # <<>> /\ u[Len(u)] = " " THEN StripRight(SubSeq(u, 1, Len(u) - 1)) ELSE u

strip(u) == StripRight(StripLeft(u))

-----------------------------------------------------------------------------
(* POST /extract and POST /download with the URL of the request *)

BlockingMessage == "YouTube is blocking requests. Please try again in a few minutes."
PrivateMessage == "This video is private and cannot be downloaded."
UnavailableMessage == "This video is unavailable or has been removed."
FailedPrefix == "Failed to extract video info: "

\* "bot" in text.lower(): the lower-cased phrases that hold the word
ContainsBotLower(text) ==
    \E i \in 1..Len(text) :
        Lower(text[i]) \in {"sign in to confirm you're not a bot", "robot check required"}

\* "blocking requests" in text: the phrases that hold the words
ContainsBlockingRequests(text) ==
    \E i \in 1..Len(text) : text[i] \in {BlockingMessage, BlockingRequestsPhrase}

\* mutant: the private-video test comes before the bot test
ProbeErrorMessagePrivateFirst(text) ==
    IF Contains(text, PrivatePhrase) THEN <<PrivateMessage>>
    ELSE IF Contains(text, BotPhrase) \/ ContainsBotLower(text) THEN <<BlockingMessage>>
    ELSE IF Contains(text, UnavailablePhrase) THEN <<UnavailableMessage>>
    ELSE <<FailedPrefix>> \o text

\* downloader.extract_video_info, except clause: the message of the exception
\* it raises for the error text of the tool
ProbeErrorMessage(text) ==
    IF Contains(text, BotPhrase) \/ ContainsBotLower(text) THEN <<BlockingMessage>>
    ELSE IF Contains(text, PrivatePhrase) THEN <<PrivateMessage>>
    ELSE IF Contains(text, UnavailablePhrase) THEN <<UnavailableMessage>>
    ELSE <<FailedPrefix>> \o text

RateLimitedDetail ==
    <<"YouTube is temporarily blocking requests. Please try again in a few minutes.">>

\* The answer of POST /extract from what the tool did: None when it returned
\* the video's info, else the error text it raised
ExtractResponse(outcome) ==
    IF outcome = None
    THEN [op |-> "extract", id |-> 0, code |-> 200, detail |-> <<>>]
    ELSE LET error_msg == ProbeErrorMessage(outcome[1])
         IN IF ContainsBlockingRequests(error_msg) \/ ContainsBotLower(error_msg)
            THEN [op |-> "extract", id |-> 0, code |-> 429, detail |-> RateLimitedDetail]
            ELSE [op |-> "extract", id |-> 0, code |-> 500, detail |-> error_msg]

\* The answer of POST /extract to a URL that fails the tests of lines 898-902
ExtractRefusal(url) ==
    [op |-> "extract", id |-> 0, code |-> 400,
     detail |-> IF url = <<>> THEN <<"Please provide a valid URL">>
                ELSE <<"Please provide a valid YouTube video URL">>]

\* mutant: the tool is asked before the URL is validated
PostExtractProbeFirst(url, outcome) ==
    /\ tool_calls < MaxProbes
    /\ tool_calls' = tool_calls + 1
    /\ response' = IF strip(url) = <<>> \/ ~is_valid_youtube_url(strip(url))
                   THEN ExtractRefusal(strip(url)) ELSE ExtractResponse(outcome)
    /\ UNCHANGED <<tasks, active_downloads, sem, files, max_file_age, job, dirs,
                   timers, now, registered, reclaimed, reaped, lock, calls, audit,
                   shutdown, reaper>>

\* POST /extract
PostExtract(url, outcome) ==
    /\ IF strip(url) = <<>> \/ ~is_valid_youtube_url(strip(url))
       THEN /\ response' = ExtractRefusal(strip(url))
            /\ UNCHANGED tool_calls
       ELSE /\ tool_calls < MaxProbes
            /\ tool_calls' = tool_calls + 1
            /\ response' = ExtractResponse(outcome)
    /\ UNCHANGED <<tasks, active_downloads, sem, files, max_file_age, job, dirs,
                   timers, now, registered, reclaimed, reaped, lock, calls, audit,
                   shutdown, reaper>>

\* mutant: _process_download without the test of is_valid_youtube_url
PostDownloadUnvalidated(url, format_id) ==
    IF strip(url) = <<>> \/ format_id = ""
    THEN /\ response' = [op |-> "download", id |-> 0, code |-> 400]
         /\ UNCHANGED <<tasks, active_downloads, sem, files, max_file_age, job, dirs,
                        timers, now, registered, reclaimed, reaped>>
         /\ UNCHANGED callers
    ELSE \E j \in Jobs : ProcessDownload(j)

\* POST /download: _process_download; a request that passes the tests is
\* the next one to get a task (ProcessDownload)
PostDownload(url, format_id) ==
    IF strip(url) = <<>> \/ format_id = "" \/ ~is_valid_youtube_url(strip(url))
    THEN /\ response' = [op |-> "download", id |-> 0, code |-> 400]
         /\ UNCHANGED <<tasks, active_downloads, sem, files, max_file_age, job, dirs,
                        timers, now, registered, reclaimed, reaped>>
         /\ UNCHANGED callers
    ELSE \E j \in Jobs : ProcessDownload(j)

-----------------------------------------------------------------------------
(* SpecGate: clients that post URLs of every shape to /extract and         *)
(* /download while the first accepted download runs                        *)

Watch(id) == <<"http", "s", "://", "www.", "youtube.com", "/watch?v=">> \o id

SomeUrls ==
    { Watch(<<"a", "B", "7">>),
      Watch(<<"a", "-", "_">>) \o <<"&", "list=">>,
      <<" ">> \o Watch(<<"a">>) \o <<" ">>,
      <<"http", "://", "youtube.com", "/embed/", "7">>,
      <<"http", "s", "://", "youtu.be", "/", "a">>,
      <<"http", "s", "://", "m.", "youtube.com", "/watch?v=", "a">>,
      <<"http", "s", "://", "www.", "youtube.com", "/v/", "a">>,
      <<"http", "s", "://", "www.", "youtube.com", "/shorts/", "a">>,
      <<>>,
      <<" ", " ">>,
      Watch(<<>>),
      Watch(<<"!", "a">>),
      <<"ftp", "://", "www.", "youtube.com", "/watch?v=", "a">>,
      <<"http", "s", "://", "example.com", "/watch?v=", "a">>,
      <<"http", "s", "://", "m.", "youtube.com", "/embed/", "a">>,
      <<"http", "s", "://", "www.", "youtu.be", "/", "a">>,
      <<"www.", "youtube.com", "/watch?v=", "a">>,
      <<"a">> \o Watch(<<"a">>) }

ProbeOutcomes == {None, Some(<<BotPhrase>>), Some(<<PrivatePhrase>>)}

FormatIds == {"", "22"}

NextGate ==
    \/ \E url \in SomeUrls, outcome \in ProbeOutcomes : PostExtract(url, outcome)
    \/ \E url \in SomeUrls, format_id \in FormatIds : PostDownload(url, format_id)
    \/ JobStep(1, OneError, {"token"}, {"title.mp4"}, {TRUE})

SpecGate == Init /\ [][NextGate]_vars

-----------------------------------------------------------------------------
(* SpecProbe: POST /extract with a valid URL while the tool fails with     *)
(* every error text of one or two phrases, beside one download             *)

ProbePhrases == {BotPhrase, RobotPhrase, PrivatePhrase, UnavailablePhrase,
                 BlockingRequestsPhrase, ForbiddenPhrase}

ProbeErrors ==
    {<<p>> : p \in ProbePhrases} \cup {<<p, q>> : p \in ProbePhrases, q \in ProbePhrases}

NextProbe ==
    \/ \E outcome \in {None} \cup {Some(text) : text \in ProbeErrors} :
          PostExtract(Watch(<<"a", "B", "7">>), outcome)
    \/ JobStep(1, OneError, {"token"}, {"title.mp4"}, {TRUE})

SpecProbe == Init /\ [][NextProbe]_vars

-----------------------------------------------------------------------------
(* The video's info: duration and size texts, quality options.  A text is   *)
(* the sequence of the pieces an f-string is made of: the literal parts    *)
(* and the decimal digits of each number.                                  *)

Digits == <<"0", "1", "2", "3", "4", "5", "6", "7", "8", "9">>

\* str(n) of an int n >= 0, digit by digit
RECURSIVE Decimal(_)
Decimal(n) ==
    IF n < 10 THEN <<Digits[n + 1]>>
    ELSE Decimal(n \div 10) \o <<Digits[(n % 10) + 1]>>

\* mutant: the hours are dropped
FormatDurationNoHours(seconds) ==
    IF seconds = 0 THEN <<"Unknown">>
    ELSE LET minutes == (seconds % 3600) \div 60
             secs == seconds % 60
         IN IF minutes > 0
            THEN Decimal(minutes) \o <<"m ">> \o Decimal(secs) \o <<"s">>
            ELSE Decimal(secs) \o <<"s">>

_format_duration(seconds) ==
    IF seconds = 0 THEN <<"Unknown">>
    ELSE LET hours == seconds \div 3600
             minutes == (seconds % 3600) \div 60
             secs == seconds % 60
         IN IF hours > 0
            THEN Decimal(hours) \o <<"h ">> \o Decimal(minutes) \o <<"m ">>
                 \o Decimal(secs) \o <<"s">>
            ELSE IF minutes > 0
                 THEN Decimal(minutes) \o <<"m ">> \o Decimal(secs) \o <<"s">>
                 ELSE Decimal(secs) \o <<"s">>

\* num / den rounded to the nearest integer, a tie to the even one: what
\* format(x, ".0f") gives for the x these functions compute, whose ties k + 0.5
\* are exact doubles
RoundHalfEven(num, den) ==
    LET q == num \div den
        r == num % den
    IN IF 2 * r > den \/ (2 * r = den /\ q % 2 = 1) THEN q + 1 ELSE q

\* format(x, ".1f") rounds the double x, and the double computed for a
\* decimal tie n/20 is n/20 itself only when n/20 is a binary fraction.  For
\* the durations below 13440 s at 8 MB per minute these are the odd n whose
\* double (duration / 60) * 8 / 1024 lies above, and below, n/20.
DoubleAboveTie == {21, 27, 31}
DoubleBelowTie == {23, 29, 33}

\* The tenths printed for size_mb / 1024, with size_mb = num / 60
GigaTenths(num) ==
    LET q == num \div 6144
        r == num % 6144
    IN IF 2 * r > 6144 THEN q + 1
       ELSE IF 2 * r < 6144 THEN q
       ELSE IF (2 * q + 1) \in DoubleAboveTie THEN q + 1
       ELSE IF (2 * q + 1) \in DoubleBelowTie THEN q
       ELSE IF q % 2 = 1 THEN q + 1 ELSE q

\* The text of a size of num / den MB (lines 461-465 and 475-478)
SizeText(num, den) ==
    IF num > 1024 * den
    THEN LET tenths == IF den = 60 THEN GigaTenths(num)
                       ELSE RoundHalfEven(num * 10, den * 1024)
         IN <<"~">> \o Decimal(tenths \div 10) \o <<".">> \o Decimal(tenths % 10)
            \o <<" GB">>
    ELSE <<"~">> \o Decimal(RoundHalfEven(num, den)) \o <<" MB">>

\* bitrates.get(height, 5)
Bitrate(height) ==
    CASE height = 1080 -> 8
      [] height = 720 -> 5
      [] height = 480 -> 3
      [] OTHER -> 5

\* mutant: gigabytes from 1024 MB on
EstimateFileSizeFromBoundary(duration, height) ==
    IF duration = 0 THEN <<"Unknown">>
    ELSE IF duration * Bitrate(height) >= 1024 * 60
         THEN LET tenths == GigaTenths(duration * Bitrate(height))
              IN <<"~">> \o Decimal(tenths \div 10) \o <<".">> \o Decimal(tenths % 10)
                 \o <<" GB">>
         ELSE SizeText(duration * Bitrate(height), 60)

_estimate_file_size(duration, height) ==
    IF duration = 0 THEN <<"Unknown">>
    ELSE SizeText(duration * Bitrate(height), 60)

\* 2.4 MB per minute: duration * 24 / 600
_estimate_audio_size(duration) ==
    IF duration = 0 THEN <<"Unknown">>
    ELSE SizeText(duration * 24, 600)

\* A variant the tool lists: its height and video codec ("none": audio only)
Variant(height, vcodec) == [height |-> height, vcodec |-> vcodec]

\* any(f.get('height', 0) >= h for f in available_formats if f.get('vcodec') != 'none')
HasHeight(available_formats, h) ==
    \E f \in available_formats : f.vcodec # "none" /\ f.height >= h

Option(format_id, height, recommended, estimated_size) ==
    [format_id |-> format_id, height |-> height, recommended |-> recommended,
     estimated_size |-> estimated_size]

\* mutant: 720p is recommended only for long videos
SynthesizedFormatsLongOnly(duration, available_formats) ==
    LET is_long_video == duration > 3600
        has_1080p == HasHeight(available_formats, 1080)
        has_720p == HasHeight(available_formats, 720)
        has_480p == HasHeight(available_formats, 480)
        f1 == IF has_1080p
              THEN <<Option("best[height>=1080]", 1080, ~is_long_video,
                            _estimate_file_size(duration, 1080))>>
              ELSE <<>>
        f2 == IF has_720p
              THEN f1 \o <<Option("best[height>=720]", 720, is_long_video,
                                  _estimate_file_size(duration, 720))>>
              ELSE f1
        f3 == IF has_480p
              THEN f2 \o <<Option("best[height>=480]", 480, FALSE,
                                  _estimate_file_size(duration, 480))>>
              ELSE f2
    IN f3 \o <<Option("best", 720, Len(f3) = 0, _estimate_file_size(duration, 720)),
               [format_id |-> "bestaudio", height |-> 0,
                estimated_size |-> _estimate_audio_size(duration)]>>

\* extract_video_info, lines 326-411: the options in the order they are appended
SynthesizedFormats(duration, available_formats) ==
    LET is_long_video == duration > 3600
        has_1080p == HasHeight(available_formats, 1080)
        has_720p == HasHeight(available_formats, 720)
        has_480p == HasHeight(available_formats, 480)
        f1 == IF has_1080p
              THEN <<Option("best[height>=1080]", 1080, ~is_long_video,
                            _estimate_file_size(duration, 1080))>>
              ELSE <<>>
        f2 == IF has_720p
              THEN f1 \o <<Option("best[height>=720]", 720, is_long_video \/ ~has_1080p,
                                  _estimate_file_size(duration, 720))>>
              ELSE f1
        f3 == IF has_480p
              THEN f2 \o <<Option("best[height>=480]", 480, FALSE,
                                  _estimate_file_size(duration, 480))>>
              ELSE f2
    IN f3 \o <<Option("best", 720, Len(f3) = 0, _estimate_file_size(duration, 720)),
               [format_id |-> "bestaudio", height |-> 0,
                estimated_size |-> _estimate_audio_size(duration)]>>

-----------------------------------------------------------------------------
(* SpecInfo: the tool has reported a video of some duration; the duration  *)
(* is formatted, the size of each tier is estimated, and the options are   *)
(* synthesized from the variants the tool lists                            *)

Durations == 0..MaxSeconds

Tiers == {1080, 720, 480}

VariantPool == {Variant(2160, "vp9"), Variant(1080, "avc1"), Variant(720, "avc1"),
                Variant(480, "avc1"), Variant(360, "avc1"), Variant(1080, "none"),
                Variant(0, "none")}

Probed(duration) == [op |-> "extract_info", id |-> 0, code |-> 0, duration |-> duration]

InitProbed(D) ==
    /\ InitCallers
    /\ tasks = <<>>
    /\ active_downloads = 0
    /\ sem = SemaphoreSlots
    /\ files = <<>>
    /\ max_file_age = DefaultMaxFileAge
    /\ job = [j \in Jobs |-> NewJob]
    /\ dirs = [j \in Jobs |-> "absent"]
    /\ timers = {}
    /\ \E duration \in D : response = Probed(duration)
    /\ now = 0
    /\ registered = {}
    /\ reclaimed = {}
    /\ reaped = {}

InitInfo == InitProbed(Durations)

FormatDuration ==
    /\ response.op = "extract_info"
    /\ response' = [op |-> "_format_duration", id |-> 0, code |-> 0,
                    seconds |-> response.duration,
                    text |-> _format_duration(response.duration)]
    /\ UNCHANGED <<tasks, active_downloads, sem, files, max_file_age, job, dirs,
                   timers, now, registered, reclaimed, reaped>>
    /\ UNCHANGED callers

EstimateFileSize(height) ==
    /\ response.op = "extract_info"
    /\ response' = [op |-> "_estimate_file_size", id |-> 0, code |-> 0,
                    duration |-> response.duration, height |-> height,
                    text |-> _estimate_file_size(response.duration, height)]
    /\ UNCHANGED <<tasks, active_downloads, sem, files, max_file_age, job, dirs,
                   timers, now, registered, reclaimed, reaped>>
    /\ UNCHANGED callers

ExtractVideoInfo(available_formats) ==
    /\ response.op = "extract_info"
    /\ response' = [op |-> "extract_video_info", id |-> 0, code |-> 200,
                    duration |-> response.duration,
                    duration_string |-> _format_duration(response.duration),
                    is_long_video |-> response.duration > 3600,
                    available_formats |-> available_formats,
                    formats |-> SynthesizedFormats(response.duration, available_formats)]
    /\ UNCHANGED <<tasks, active_downloads, sem, files, max_file_age, job, dirs,
                   timers, now, registered, reclaimed, reaped>>
    /\ UNCHANGED callers

NextInfo ==
    \/ FormatDuration
    \/ \E height \in Tiers : EstimateFileSize(height)

SpecInfo == InitInfo /\ [][NextInfo]_vars

\* SpecOptions: the options for the durations around the one-hour mark and
\* every set of variants
OptionDurations == {0, 1, 3599, 3600, 3601, 7200, MaxSeconds}

InitOptions == InitProbed(OptionDurations)

NextOptions ==
    \E available_formats \in SUBSET VariantPool : ExtractVideoInfo(available_formats)

SpecOptions == InitOptions /\ [][NextOptions]_vars

-----------------------------------------------------------------------------
(* shutdown_event *)

\* The handler is called: start_time = time.time()
ShutdownEvent ==
    /\ shutdown.pc = "off"
    /\ shutdown' = [shutdown EXCEPT !.pc = "poll", !.start_time = now]
    /\ UNCHANGED <<tasks, active_downloads, sem, files, max_file_age, job, dirs,
                   timers, response, now, registered, reclaimed, reaped, lock, calls,
                   audit, tool_calls, reaper>>

\* mutant: the wait has no bound
ShutdownPollUnbounded ==
    /\ shutdown.pc = "poll"
    /\ shutdown' = IF active_downloads > 0
                   THEN [shutdown EXCEPT !.pc = "sleep", !.wake = now + ShutdownPollSleep]
                   ELSE [shutdown EXCEPT !.pc = "sweep"]
    /\ UNCHANGED <<tasks, active_downloads, sem, files, max_file_age, job, dirs,
                   timers, response, now, registered, reclaimed, reaped, lock, calls,
                   audit, tool_calls, reaper>>

\* The test of the while loop (line 1141): sleep 10 s, or leave the wait
ShutdownPoll ==
    /\ shutdown.pc = "poll"
    /\ shutdown' = IF active_downloads > 0 /\ now - shutdown.start_time < shutdown_timeout
                   THEN [shutdown EXCEPT !.pc = "sleep", !.wake = now + ShutdownPollSleep]
                   ELSE [shutdown EXCEPT !.pc = "sweep"]
    /\ UNCHANGED <<tasks, active_downloads, sem, files, max_file_age, job, dirs,
                   timers, response, now, registered, reclaimed, reaped, lock, calls,
                   audit, tool_calls, reaper>>

\* asyncio.sleep(10) returns
ShutdownWake ==
    /\ shutdown.pc = "sleep"
    /\ now >= shutdown.wake
    /\ shutdown' = [shutdown EXCEPT !.pc = "poll"]
    /\ UNCHANGED <<tasks, active_downloads, sem, files, max_file_age, job, dirs,
                   timers, response, now, registered, reclaimed, reaped, lock, calls,
                   audit, tool_calls, reaper>>

\* file_manager.cleanup_old_files() (line 1146), then the handler returns
ShutdownSweep(failing) ==
    /\ shutdown.pc = "sweep"
    /\ LET st == cleanup_old_files([files |-> files, dirs |-> dirs, reclaimed |-> reclaimed],
                                   max_file_age, now, failing)
       IN /\ files' = st.files
          /\ dirs' = st.dirs
          /\ reclaimed' = st.reclaimed
    /\ shutdown' = [shutdown EXCEPT !.pc = "done", !.sweeps = @ + 1]
    /\ UNCHANGED <<tasks, active_downloads, sem, max_file_age, job, timers, response,
                   now, registered, reaped, lock, calls, audit, tool_calls, reaper>>

\* SpecShutdown: one download, which may stop making steps at any point, and
\* a shutdown at any point of it within the first 20 s.  The clock takes the
\* multiples of ShutdownPollSleep; a sleep returns on time or one period late.
ShutdownInstants ==
    {k * ShutdownPollSleep : k \in 1..(shutdown_timeout \div ShutdownPollSleep + 3)}

ShutdownClock ==
    \E t \in ShutdownInstants :
        /\ IF shutdown.pc = "sleep"
           THEN t <= shutdown.wake + ShutdownPollSleep
           ELSE shutdown.pc = "off" /\ t <= 2 * ShutdownPollSleep
        /\ Tick(t)

NextShutdown ==
    \/ JobStep(1, OneError, {"token"}, {"title.mp4"}, {TRUE})
    \/ ShutdownEvent
    \/ ShutdownPoll
    \/ ShutdownWake
    \/ \E failing \in SUBSET {1} : ShutdownSweep(failing)
    \/ ShutdownClock

\* Scheduling: time passes and the event loop runs the handler's steps; the
\* download need not make progress
SpecShutdown ==
    /\ Init
    /\ [][NextShutdown]_vars
    /\ WF_vars(ShutdownClock)
    /\ WF_vars(ShutdownPoll)
    /\ WF_vars(ShutdownWake)
    /\ WF_vars(\E failing \in SUBSET {1} : ShutdownSweep(failing))

\* SpecRace: registered files with no download running, a client that
\* fetches them, and the three reclaimers on the event loop: the passes of
\* cleanup_temp_files, the cleanup_after_download of each fetch, and the
\* sweep of shutdown_event, which may be called at any instant; rmtree may
\* fail for any of them
NextRace ==
    \/ \E j \in 1..SmallJobs : DownloadFile(j)
    \/ \E tm \in timers, rm_ok \in BOOLEAN : CleanupAfterDownload(tm, rm_ok)
    \/ \E failing \in SUBSET (1..SmallJobs), disk_high \in BOOLEAN :
          CleanupTempFiles(failing, disk_high)
    \/ ShutdownEvent
    \/ ShutdownPoll
    \/ \E failing \in SUBSET (1..SmallJobs) : ShutdownSweep(failing)
    \/ \E t \in ReclaimInstants : Tick(t)

SpecRace == InitFiles /\ [][NextRace]_vars

-----------------------------------------------------------------------------
(* Properties *)

\* the jobs between increment_active_downloads and their finally clause
Admitted == {j \in Jobs : job[j].pc \in {"thread", "download", "collect", "returned", "raised"}}

\* C1: in every reachable state active_downloads is at most
\* max_concurrent_downloads, however the download jobs interleave.
C1_ActiveWithinCap == active_downloads <= max_concurrent_downloads

\* The cap is reached while a further request waits for a slot
C1_Witness ==
    /\ active_downloads = max_concurrent_downloads
    /\ \E j \in Jobs : job[j].pc = "queued"

\* C2: active_downloads equals the number of jobs that have been admitted and
\* have not yet run their finally clause (one increment, one decrement per
\* job, on the success path and on every failure path, no decrement without
\* an increment), and it is 0 once all jobs have finished.
C2_ActiveCountsAdmitted ==
    /\ active_downloads = Cardinality(Admitted)
    /\ (\A j \in Jobs : job[j].pc = "done") => active_downloads = 0

\* Every job has finished, some by the success path and some by a failure
\* path of each kind (before the directory exists, and after)
C2_Witness ==
    /\ \A j \in Jobs : job[j].pc = "done"
    /\ \E j \in Jobs : job[j].err = None
    /\ \E j \in Jobs : job[j].err # None /\ job[j].temp_dir = None
    /\ \E j \in Jobs : job[j].err # None /\ job[j].temp_dir # None

StatusStep(old, new) ==
    \/ new = old
    \/ old = PENDING /\ new = PROCESSING
    \/ old = PROCESSING /\ new \in {COMPLETED, FAILED}

\* C3: a task's status only moves forward along pending -> processing ->
\* {completed | failed} (never back to pending, never out of completed or
\* failed), and every step that changes a task's record leaves its updated_at
\* at the current time.
C3_StatusForward ==
    [][\A x \in DOMAIN tasks \cap DOMAIN tasks' :
          /\ StatusStep(tasks[x].status, tasks'[x].status)
          /\ tasks'[x] # tasks[x] => tasks'[x].updated_at = now']_vars

\* A task completed and a task failed, both updated later than created
C3_Witness ==
    /\ \E x \in DOMAIN tasks :
          tasks[x].status = COMPLETED /\ tasks[x].updated_at > tasks[x].created_at
    /\ \E x \in DOMAIN tasks :
          tasks[x].status = FAILED /\ tasks[x].updated_at > tasks[x].created_at

\* The user-facing messages in the order the claim gives them, each with the
\* phrases that select it
MessageOrder ==
    << <<{BotPhrase}, BotMessage>>,
       <<{FormatPhrase}, FormatMessage>>,
       <<{ForbiddenPhrase}, ForbiddenMessage>>,
       <<{BrokenPhrase, TimeoutLower, TimeoutUpper}, TimeoutMessage>>,
       <<{NoSpacePhrase}, NoSpaceMessage>> >>

Matches(text, i) == \E k \in 1..Len(text) : text[k] \in MessageOrder[i][1]

FirstMatch(text) ==
    IF \E i \in 1..Len(MessageOrder) : Matches(text, i)
    THEN MessageOrder[CHOOSE i \in 1..Len(MessageOrder) :
                         /\ Matches(text, i)
                         /\ \A h \in 1..(i - 1) : ~Matches(text, h)][2]
    ELSE text

\* C4: when a job has failed, at any stage, and its task is still in the
\* registry, the task has status failed, progress 0 and a non-null error: the
\* message of the first matching category in the order bot-blocked, format
\* unavailable, access denied, connection timeout, disk full, else the
\* original text; and the step that records the failure changes no other
\* job and no other task.
C4_FailureRecorded ==
    /\ [](\A j \in Jobs :
             (job[j].pc = "done" /\ job[j].err # None /\ j \in DOMAIN tasks)
             => /\ tasks[j].status = FAILED
                /\ tasks[j].progress = 0
                /\ tasks[j].error # None
                /\ tasks[j].error = Some(FirstMatch(job[j].err[1])))
    /\ [][\A j \in Jobs :
             (job[j].pc # "done" /\ job'[j].pc = "done" /\ job'[j].err # None)
             => \A k \in Jobs \ {j} :
                   /\ job'[k] = job[k]
                   /\ (k \in DOMAIN tasks => k \in DOMAIN tasks' /\ tasks'[k] = tasks[k])]_vars

\* Request 1 failed with a text that matches two categories and got the
\* message of the earlier one, while request 2 is still downloading
C4_Witness ==
    /\ job[1].pc = "done"
    /\ job[1].err = Some(<<NoSpacePhrase, FormatPhrase>>)
    /\ 1 \in DOMAIN tasks
    /\ tasks[1].error = Some(FormatMessage)
    /\ job[2].pc = "download"

\* C5: once a job has failed, at whatever stage, its temporary directory no
\* longer exists and the file registry holds no record for its task; a task
\* with status failed never has a file record.
C5_FailedJobLeavesNothing ==
    /\ \A j \in Jobs :
          (job[j].pc = "done" /\ job[j].err # None)
          => ~DirExists(dirs, j) /\ j \notin DOMAIN files
    /\ \A x \in DOMAIN tasks : tasks[x].status = FAILED => x \notin DOMAIN files

\* C6: a task with status completed has progress 100, a filename, the
\* download URL of its own id, and a file record that register_file stored no
\* later than the step that marked it completed.
C6_CompletedAfterRegistered ==
    \A x \in DOMAIN tasks :
        tasks[x].status = COMPLETED
        => /\ tasks[x].progress = 100
           /\ tasks[x].filename # None
           /\ tasks[x].download_url = Some(<<"/download-file/", x>>)
           /\ x \in registered

\* A completed task whose file record is in the registry
C6_Witness ==
    \E x \in DOMAIN tasks :
        /\ tasks[x].status = COMPLETED
        /\ x \in DOMAIN files
        /\ files[x].filename = tasks[x].filename[1]

\* the tasks the claim says the reaper removes
Expired(ts, t) ==
    {x \in DOMAIN ts : /\ (ts[x].status = COMPLETED \/ ts[x].status = FAILED)
                        /\ t - ts[x].updated_at > cleanup_interval}

\* C7: a pass of cleanup_old_tasks removes exactly the completed or failed
\* tasks whose time since updated_at exceeds the retention threshold, removes
\* no pending or processing task of any age, and changes no remaining task.
C7_ReaperRemovesExpired ==
    [][CleanupTask =>
          /\ DOMAIN tasks' = DOMAIN tasks \ Expired(tasks, now)
          /\ \A x \in DOMAIN tasks' : tasks'[x] = tasks[x]
          /\ \A x \in DOMAIN tasks :
                tasks[x].status \in {PENDING, PROCESSING} => x \in DOMAIN tasks']_vars

\* The reaper has removed a task while a task that is older than the
\* retention threshold but not completed or failed is still there
C7_Witness ==
    /\ reaped # {}
    /\ \E x \in DOMAIN tasks :
          /\ tasks[x].status \in {PENDING, PROCESSING}
          /\ now - tasks[x].updated_at > cleanup_interval

\* the records the claim says a sweep reclaims
Due(fs, age_limit, t) ==
    {x \in DOMAIN fs : \/ t - fs[x].created_at > age_limit
                       \/ fs[x].downloaded /\ t - fs[x].created_at > 600}

\* C8: a pass of cleanup_old_files reclaims a record if and only if its age
\* since creation exceeds max_file_age, or it is marked downloaded and its age
\* exceeds 600 s; every other record is left unchanged.
C8_SweepReclaimsDue ==
    [][(\E failing \in SUBSET (1..SmallJobs), disk_high \in BOOLEAN :
            CleanupTempFiles(failing, disk_high))
       => /\ DOMAIN files' = DOMAIN files \ Due(files, max_file_age, now)
          /\ \A x \in DOMAIN files' : files'[x] = files[x]]_vars

\* With no file ever fetched, a sweep has reclaimed the older record by its
\* age while the younger one, past the 600 s of a downloaded file, stays
C8_Witness ==
    /\ response = NoResponse
    /\ reclaimed = {1}
    /\ 2 \in DOMAIN files
    /\ ~files[2].downloaded
    /\ now - files[2].created_at > AccessedGrace

\* C9 as stated: once a record has been reclaimed, the record and its
\* temporary directory are gone.
C9_ReclaimRemovesDirectory ==
    \A x \in reclaimed : x \notin DOMAIN files /\ ~DirExists(dirs, x)

\* C9, amended: every registered record is eventually reclaimed, fetched or
\* not; the delayed reclaim after a fetch removes the record, and the
\* directory too when rmtree works; a reclaimed record never comes back, and
\* every later fetch of its id answers 404 and changes nothing.
C9_EventuallyReclaimed ==
    /\ \A x \in 1..SmallJobs : (x \in DOMAIN files) ~> (x \notin DOMAIN files)
    /\ [](\A x \in reclaimed : x \notin DOMAIN files)
    /\ [][\A tm \in timers, rm_ok \in BOOLEAN :
             CleanupAfterDownload(tm, rm_ok)
             => /\ tm[1] \notin DOMAIN files'
                /\ (rm_ok /\ tm[1] \in DOMAIN files) => ~DirExists(dirs', tm[1])]_vars
    /\ [][\A x \in reclaimed :
             DownloadFile(x) => response'.code = 404 /\ UNCHANGED <<files, timers>>]_vars

\* A file was fetched, its delayed reclaim has run, and a later fetch of the
\* same id was answered 404
C9_Witness ==
    /\ 1 \in reclaimed
    /\ timers = {}
    /\ now < AccessedGrace
    /\ response = [op |-> "download_file", id |-> 1, code |-> 404]

\* C10: a task that create_task has just inserted is what get_task returns:
\* status pending, progress 0, zero byte counters, retry_count 0, max_retries
\* 5, and null filename, download_url and error.
C10_CreatedTaskIsPending ==
    [][\A x \in DOMAIN tasks' \ DOMAIN tasks :
          /\ get_task(tasks', x) # None
          /\ LET task == get_task(tasks', x)[1]
             IN /\ task.status = PENDING
                /\ task.progress = 0
                /\ task.downloaded_bytes = 0
                /\ task.total_bytes = 0
                /\ task.retry_count = 0
                /\ task.max_retries = 5
                /\ task.filename = None
                /\ task.download_url = None
                /\ task.error = None]_vars

\* The second request's task has just been created
C10_Witness ==
    /\ response = [op |-> "download", id |-> 2, code |-> 200]
    /\ job[2].pc = "queued"
    /\ get_task(tasks, 2) # None
    /\ get_task(tasks, 2)[1].status = PENDING

\* C11 as stated: create_task with an id the registry already holds leaves
\* the registry as it was.
C11_CollisionLeavesRecord ==
    [][\A x \in DOMAIN tasks : CreateTaskCall(x) => tasks' = tasks]_vars

\* C12: for an id the registry does not hold (never created, deleted or
\* expired) get_task returns None, GET /task/{id} and DELETE /task/{id}
\* answer 404, and the registry stays as it was.
C12_AbsentIdIsNotFound ==
    /\ [](\A x \in TaskIds \ DOMAIN tasks : get_task(tasks, x) = None)
    /\ [][\A x \in TaskIds \ DOMAIN tasks :
             /\ GetTaskStatus(x) => response'.code = 404 /\ tasks' = tasks
             /\ DeleteTask(x) => response'.code = 404 /\ tasks' = tasks]_vars

\* Task 1 was created, failed and expired, task 2 was never created, and
\* GET /task/1 has just answered 404
C12_Witness ==
    /\ 1 \in reaped
    /\ 1 \notin DOMAIN tasks
    /\ 2 \notin DOMAIN audit.committed
    /\ response = [op |-> "get_task_status", id |-> 1, code |-> 404]

\* C13 as stated: the task that get_task returned to the handler of
\* GET /task/{id} is not changed by a later step of update_task.
C13_ReturnedTaskIsSnapshot ==
    [][(/\ response.op = "get_task_status"
        /\ response.code = 200
        /\ \E c \in Threads : UpdateWrite(c) \/ UpdateStamp(c))
       => response'.task = response.task]_vars

\* The threads inside update_task, between its lines 79 and 81
Inside == {c \in Threads : calls[c].pc \in {"checked", "written"}}

\* C14: update_task calls are serialized: at most one thread is inside at a
\* time, and once no call on a task is in progress every field an update
\* wrote holds the value of the last update that wrote it, the other fields
\* being as create_task set them.
C14_UpdatesSerialized ==
    /\ Cardinality(Inside) <= 1
    /\ \A x \in DOMAIN tasks :
          (\A c \in Inside : calls[c].task_id # x)
          => /\ x \in DOMAIN audit.written
             /\ \A f \in DOMAIN audit.written[x] : tasks[x][f] = audit.written[x][f]
             /\ \A f \in DOMAIN tasks[x] \ (DOMAIN audit.written[x] \cup {"updated_at"}) :
                   tasks[x][f] = NewTask(x, tasks[x].created_at)[f]

\* Both threads have returned; task 1 holds the progress one update wrote
\* and the message a later one wrote over it
C14_Witness ==
    /\ Inside = {}
    /\ 1 \in DOMAIN tasks
    /\ tasks[1].progress = 98
    /\ tasks[1].message = RetryMessage(0)
    /\ tasks[1].updated_at > tasks[1].created_at

\* What a reader may see of task x: the value the last completed call left,
\* or the value a call in progress leaves when it completes now
Whole(x) ==
    {audit.committed[x]} \cup
    {update_task(Put(<<>>, x, audit.committed[x]), x, calls[c].kw, now)[x] :
        c \in {d \in Inside : calls[d].task_id = x}}

\* C15 as stated: the body of GET /task/{id} and of GET /tasks, when it is
\* encoded, shows of every task a value with whole updates only.
C15_ReadsSeeWholeUpdates ==
    [][Encode
       => /\ response.op = "get_task_status" => response'.task \in Whole(response.id)
          /\ response.op = "get_all_tasks"
             => \A x \in DOMAIN response'.tasks : response'.tasks[x] \in Whole(x)]_vars

\* C16 as stated: no update_task call raises.
C16_UpdateNeverRaises == \A c \in Threads : calls[c].pc # "raised"

\* C17 as stated: calling mark_downloaded twice leaves the registry as
\* calling it once does.
C17_MarkIdempotent ==
    \A x \in DOMAIN files :
        mark_downloaded(mark_downloaded(files, x), x) = mark_downloaded(files, x)

\* C17, amended: a second mark_downloaded changes nothing but access_count,
\* which every call increments; downloaded is true after one call and after
\* two; on an id without a record mark_downloaded changes nothing.
C17_MarkCountsAccesses ==
    /\ \A x \in DOMAIN files :
          LET once == mark_downloaded(files, x)
              twice == mark_downloaded(once, x)
          IN /\ once[x].downloaded /\ twice[x].downloaded
             /\ once[x].access_count = files[x].access_count + 1
             /\ twice = [once EXCEPT ![x].access_count = once[x].access_count + 1]
             /\ once = [files EXCEPT ![x].downloaded = TRUE,
                                     ![x].access_count = once[x].access_count]
    /\ \A x \in Jobs \ DOMAIN files : mark_downloaded(files, x) = files

\* File 1 has been fetched twice: mark_downloaded has run twice on its record
C17_Witness ==
    /\ 1 \in DOMAIN files
    /\ files[1].downloaded
    /\ files[1].access_count = 2

\* C18: cleanup_file raises nothing and leaves no record for the id, whether
\* rmtree deleted the directory, the directory was already gone, or rmtree
\* failed; the other records stay as they were; on an id without a record
\* (unknown, or already cleaned up) it changes neither registry nor disk.
C18_CleanupFileAlwaysRemovesRecord ==
    [][\A x \in Jobs, rm_ok \in BOOLEAN :
          CleanupFileCall(x, rm_ok)
          => /\ response'.raised = None
             /\ x \notin DOMAIN files'
             /\ DOMAIN files' = DOMAIN files \ {x}
             /\ \A y \in DOMAIN files' : files'[y] = files[y]
             /\ x \notin DOMAIN files => UNCHANGED <<files, dirs, reclaimed>>
             /\ (x \in DOMAIN files /\ rm_ok) => ~DirExists(dirs', files[x].temp_dir)]_vars

\* Both records have been cleaned up, the second with rmtree failing so that
\* its directory is still there, and cleanup_file has just been called on an
\* id that never had a record
C18_Witness ==
    /\ files = <<>>
    /\ reclaimed = 1..SmallJobs
    /\ DirExists(dirs, SmallJobs)
    /\ response = [op |-> "cleanup_file", id |-> SmallJobs + 1, code |-> 0,
                   raised |-> None]

\* C19: the tool is run at most 3 times per job; a successful attempt ends
\* the loop; after failed attempt k < 3 the task's message shows attempt k+1
\* of 3 and the loop goes on; the error of a failed third attempt leaves the
\* thread, reaches download_video_async unchanged, and the task becomes failed.
C19_AtMostThreeAttempts ==
    /\ [](\A j \in Jobs : job[j].attempt + 1 <= 3)
    /\ [][\A j \in Jobs :
             /\ job'[j].attempt # job[j].attempt
                => /\ job[j].pc = "download" /\ job'[j].pc = "download"
                   /\ job'[j].attempt = job[j].attempt + 1
             /\ (job[j].pc = "download" /\ job'[j].pc = "collect")
                => job'[j].attempt = job[j].attempt
             /\ (job[j].pc = "download" /\ job'[j].attempt = job[j].attempt + 1)
                => LET k == job[j].attempt + 1
                   IN /\ k < 3
                      /\ job'[j].err = None
                      /\ j \in DOMAIN tasks
                         => tasks'[j].message =
                               IF k = 1 THEN "Retrying download... (Attempt 2/3)"
                               ELSE "Retrying download... (Attempt 3/3)"
             /\ (job[j].pc = "download" /\ job'[j].pc = "raised")
                => /\ job[j].attempt + 1 = 3
                   /\ \E text \in ErrorTexts, rm_ok \in BOOLEAN :
                         AttemptFail(j, text, rm_ok) /\ job'[j].err = Some(text)
             /\ (job[j].pc = "raised" /\ job'[j].pc = "done")
                => /\ job'[j].err = job[j].err
                   /\ j \in DOMAIN tasks => tasks'[j].status = FAILED]_vars

\* Two attempts of the first job have failed: its message announces attempt
\* 3 of 3 and the third attempt is about to run
C19_Witness ==
    /\ job[1].pc = "download"
    /\ job[1].attempt = 2
    /\ 1 \in DOMAIN tasks
    /\ tasks[1].message = "Retrying download... (Attempt 3/3)"

\* The URLs that is_valid_youtube_url rejects, after strip()
Rejected == {url \in SomeUrls : ~is_valid_youtube_url(strip(url))}

\* C20: for a URL that is_valid_youtube_url rejects, POST /extract answers
\* 400 and the tool is not invoked, and POST /download answers 400 while no
\* task is created, no job is scheduled and active_downloads keeps its value.
C20_RejectedUrlIsRefused ==
    [][\/ response'.code = 400 /\ UNCHANGED <<tool_calls, tasks, job, active_downloads, sem>>
       \/ \A url \in Rejected :
             /\ \A outcome \in ProbeOutcomes : ~PostExtract(url, outcome)
             /\ \A format_id \in FormatIds : ~PostDownload(url, format_id)]_vars

\* A download is running, the tool has answered one probe, and a POST
\* /download has just been refused: only the first request has a task and a job
C20_Witness ==
    /\ response = [op |-> "download", id |-> 0, code |-> 400]
    /\ active_downloads = 1
    /\ DOMAIN tasks = {1}
    /\ \A j \in Jobs \ {1} : job[j].pc = "new"
    /\ tool_calls = 1

\* The class of a probe failure in the order the claim gives them
ProbeClass(text) ==
    IF \E i \in 1..Len(text) : text[i] \in {BotPhrase, RobotPhrase} THEN "bot-detection"
    ELSE IF \E i \in 1..Len(text) : text[i] = PrivatePhrase THEN "private"
    ELSE IF \E i \in 1..Len(text) : text[i] = UnavailablePhrase THEN "unavailable"
    ELSE "generic"

\* C21: a probe failure is classified by first match as bot-detection,
\* private, unavailable or generic, and POST /extract answers 429 exactly
\* when the class is bot-detection and 500 for the three other classes.
C21_StatusFollowsClass ==
    [][tool_calls' # tool_calls
       => \A text \in ProbeErrors :
             PostExtract(Watch(<<"a", "B", "7">>), Some(text))
             => response'.code = IF ProbeClass(text) = "bot-detection" THEN 429 ELSE 500]_vars

\* C22: for a positive number of seconds, _format_duration gives
\* "{h}h {m}m {sec}s" when h > 0, "{m}m {sec}s" when h = 0 and m > 0, and
\* "{sec}s" otherwise, with h = s div 3600, m = (s mod 3600) div 60,
\* sec = s mod 60; 45 gives "45s", 125 gives "2m 5s", 3725 gives "1h 2m 5s".
C22_DurationText ==
    (response.op = "_format_duration" /\ response.seconds > 0)
    => LET s == response.seconds
           h == s \div 3600
           m == (s % 3600) \div 60
           sec == s % 60
       IN /\ h > 0 => response.text = Decimal(h) \o <<"h ">> \o Decimal(m) \o <<"m ">>
                                       \o Decimal(sec) \o <<"s">>
          /\ (h = 0 /\ m > 0) => response.text = Decimal(m) \o <<"m ">> \o Decimal(sec)
                                                 \o <<"s">>
          /\ (h = 0 /\ m = 0) => response.text = Decimal(sec) \o <<"s">>
          /\ s = 45 => response.text = <<"4", "5", "s">>
          /\ s = 125 => response.text = <<"2", "m ", "5", "s">>
          /\ s = 3725 => response.text = <<"1", "h ", "2", "m ", "5", "s">>

\* 3725 seconds have been formatted
C22_Witness ==
    /\ response.op = "_format_duration"
    /\ response.seconds = 3725
    /\ response.text = <<"1", "h ", "2", "m ", "5", "s">>

\* The rates of the claim, in MB per minute
TierRate(height) == CASE height = 1080 -> 8 [] height = 720 -> 5 [] height = 480 -> 3

\* text renders num / 60 MB: as "~N.N GB" to the nearest tenth of a GB when
\* giga, else as "~N MB" to the nearest MB
RenderedAs(text, num, giga) ==
    IF giga
    THEN \E T \in {num \div 6144, num \div 6144 + 1} :
            /\ T * 6144 - num <= 3072 /\ num - T * 6144 <= 3072
            /\ text = <<"~">> \o Decimal(T \div 10) \o <<".">> \o Decimal(T % 10)
                      \o <<" GB">>
    ELSE \E N \in {num \div 60, num \div 60 + 1} :
            /\ N * 60 - num <= 30 /\ num - N * 60 <= 30
            /\ text = <<"~">> \o Decimal(N) \o <<" MB">>

SizeExamples ==
    /\ (response.duration = 600 /\ response.height = 720)
       => response.text = <<"~", "5", "0", " MB">>
    /\ (response.duration = 7200 /\ response.height = 1080)
       => response.text = <<"~", "9", "6", "0", " MB">>
    /\ (response.duration = 13320 /\ response.height = 1080)
       => response.text = <<"~", "1", ".", "7", " GB">>

\* C23 as stated: for a positive duration and each tier the estimated size is
\* durationMinutes x rate, rendered as "~N MB" when it is below 1024 MB and as
\* "~N.N GB" otherwise.
C23_GigabytesFromBoundary ==
    (response.op = "_estimate_file_size" /\ response.duration > 0)
    => LET num == response.duration * TierRate(response.height)
       IN RenderedAs(response.text, num, num >= 1024 * 60) /\ SizeExamples

\* C23: for a positive duration and each tier the estimated size is
\* durationMinutes x rate (1080p: 8, 720p: 5, 480p: 3 MB per minute), rendered
\* as "~N MB" when it is at most 1024 MB and as "~N.N GB" when it exceeds
\* 1024 MB; 600 s at 720 gives "~50 MB", 7200 s at 1080 gives "~960 MB",
\* 13320 s at 1080 gives "~1.7 GB".
C23_GigabytesAboveBoundary ==
    (response.op = "_estimate_file_size" /\ response.duration > 0)
    => LET num == response.duration * TierRate(response.height)
       IN RenderedAs(response.text, num, num > 1024 * 60) /\ SizeExamples

\* 128 minutes at 1080p are exactly 1024 MB, rendered in MB
C23_Witness ==
    /\ response.op = "_estimate_file_size"
    /\ response.duration = 7680
    /\ response.height = 1080
    /\ response.text = <<"~", "1", "0", "2", "4", " MB">>

\* The format_id of the option of a tier
TierId(h) ==
    CASE h = 1080 -> "best[height>=1080]"
      [] h = 720 -> "best[height>=720]"
      [] h = 480 -> "best[height>=480]"

\* <<TierId(h)>> when one of the video variants vs is at least h high
Offered(vs, h) == IF \E v \in vs : v.height >= h THEN <<TierId(h)>> ELSE <<>>

\* C24: the synthesized options are, in order, 1080p iff a video variant of
\* height >= 1080 exists, 720p iff one of height >= 720 exists, 480p iff one
\* of height >= 480 exists, then always the best-available and the audio-only
\* option; 1080p is recommended iff the duration is at most 3600 s, 720p iff
\* the video is longer than that or there is no 1080p option, 480p never.
C24_OptionsFollowVariants ==
    response.op = "extract_video_info"
    => LET vs == {f \in response.available_formats : f.vcodec # "none"}
           fs == response.formats
       IN /\ [i \in 1..Len(fs) |-> fs[i].format_id]
             = Offered(vs, 1080) \o Offered(vs, 720) \o Offered(vs, 480)
               \o <<"best", "bestaudio">>
          /\ \A i \in 1..Len(fs) :
                /\ fs[i].format_id = TierId(1080)
                   => fs[i].recommended = (response.duration <= 3600)
                /\ fs[i].format_id = TierId(720)
                   => fs[i].recommended
                      = (response.duration > 3600
                         \/ ~\E k \in 1..Len(fs) : fs[k].format_id = TierId(1080))
                /\ fs[i].format_id = TierId(480) => fs[i].recommended = FALSE

\* A video of one hour and one second with variants of every tier: five
\* options, 720p recommended and 1080p not
C24_Witness ==
    /\ response.op = "extract_video_info"
    /\ response.duration = 3601
    /\ Len(response.formats) = 5
    /\ response.formats[1].format_id = "best[height>=1080]"
    /\ ~response.formats[1].recommended
    /\ response.formats[2].recommended
    /\ ~response.formats[3].recommended

\* C25: the shutdown sequence always terminates; it leaves the wait exactly
\* when a poll finds active_downloads = 0 or 300 s elapsed, also when a job
\* never finishes; it invokes the file sweep once, after the wait has ended.
C25_ShutdownTerminates ==
    /\ (shutdown.pc = "poll") ~> (shutdown.pc = "done")
    /\ [](shutdown.sweeps = IF shutdown.pc = "done" THEN 1 ELSE 0)
    /\ [][shutdown.pc = "poll" /\ shutdown'.pc # "poll"
          => shutdown'.pc
             = IF active_downloads = 0 \/ now - shutdown.start_time >= shutdown_timeout
               THEN "sweep" ELSE "sleep"]_vars
    /\ [][shutdown'.sweeps # shutdown.sweeps => shutdown.pc = "sweep"]_vars
    /\ [][shutdown'.pc = "sweep" => shutdown.pc \in {"poll", "sweep"}]_vars

\* The handler has returned after its sweep while the download was still
\* active: the bound had elapsed
C25_Witness ==
    /\ shutdown.pc = "done"
    /\ shutdown.sweeps = 1
    /\ active_downloads = 1
    /\ now - shutdown.start_time >= shutdown_timeout

\* C26: a job that waits while max_concurrent_downloads downloads are active
\* is denied admission and, unless a slot becomes free, gets the message
\* "Waiting for download slot..." with status pending.
C26_QueuedMessageShown ==
    \A j \in Jobs :
        (job[j].pc \in {"queued", "poll"} /\ active_downloads = max_concurrent_downloads)
        ~> \/ active_downloads < max_concurrent_downloads
           \/ /\ j \in DOMAIN tasks
              /\ tasks[j].status = PENDING
              /\ tasks[j].message = "Waiting for download slot..."

\* C27: when every invocation of the tool terminates and scheduling is fair,
\* every submitted job is eventually admitted and its task eventually reaches
\* completed or failed, also when more jobs are submitted than the cap admits.
C27_EveryJobFinishes ==
    \A j \in Jobs :
        /\ (job[j].pc = "queued") ~> (j \in Admitted)
        /\ (job[j].pc = "queued") ~> (j \in DOMAIN tasks /\ tasks[j].status \in {COMPLETED, FAILED})

\* The last of MaxJobs requests waits while the cap is reached
C27_Witness ==
    /\ job[MaxJobs].pc = "queued"
    /\ active_downloads = max_concurrent_downloads
    /\ sem = 0

\* C28: a task's progress is within [0,100]; within [5,98] while its status
\* is processing; a 'downloading' event writes a value within [15,95]
\* whatever the tool reports, a 'finished' event writes 98, and 100 goes
\* with status completed only.
C28_ProgressInRange ==
    /\ [](\A x \in DOMAIN tasks :
            /\ tasks[x].progress \in 0..100
            /\ tasks[x].status = PROCESSING => tasks[x].progress \in 5..98
            /\ tasks[x].progress = 100 => tasks[x].status = COMPLETED)
    /\ [][\A j \in Jobs :
            (job[j].pc = "download" /\ job' = job /\ tasks'[j] # tasks[j])
            => IF tasks'[j].message = "Downloading..."
               THEN tasks'[j].progress \in 15..95
               ELSE /\ tasks'[j].progress = 98
                    /\ tasks'[j].message = "Processing downloaded file..."]_vars

\* The tool has reported more bytes than the total: the progress is 95
C28_Witness ==
    /\ job[1].pc = "download"
    /\ tasks[1].downloaded_bytes > tasks[1].total_bytes
    /\ tasks[1].total_bytes > 0
    /\ tasks[1].progress = 95
    /\ tasks[1].status = PROCESSING

\* C29: every task that has reached completed or failed is eventually
\* removed, by a client or by the task reaper; the reaper removes it at the
\* first of its half-hourly passes at which the time since updated_at exceeds
\* the retention window of 7200 s, and not at an earlier one.
C29_TerminalTaskReaped ==
    /\ \A x \in 1..SmallJobs :
          (x \in DOMAIN tasks /\ tasks[x].status \in {COMPLETED, FAILED})
          ~> (x \notin DOMAIN tasks)
    /\ [][PeriodicCleanupTask
          => \A x \in DOMAIN tasks :
                x \notin DOMAIN tasks'
                <=> /\ tasks[x].status \in {COMPLETED, FAILED}
                    /\ now - tasks[x].updated_at > 7200]_vars
    /\ [](reaper.wake % ReaperPeriod = 0 /\ now <= reaper.wake)

\* The clock has reached the reaper's sixth pass, and the reaper has removed
\* the task of a finished download; no task is left
C29_Witness ==
    /\ reaped # {}
    /\ now = 6 * ReaperPeriod
    /\ \E x \in reaped : x \in DOMAIN job /\ job[x].pc = "done"
    /\ DOMAIN tasks = {}

\* C30 as stated: after every pass of the file reaper, also one that raised,
\* max_file_age is 1800 s if the disk usage observed in the pass exceeded 90%
\* and 3600 s otherwise.
C30_ThresholdAfterEveryPass ==
    [][response'.op = "cleanup_temp_files"
       => \A failing \in SUBSET (1..SmallJobs), memory \in MemoryReadings,
             disk \in DiskReadings :
             ReaperPass(failing, memory, disk)
             => max_file_age' = IF memory # None /\ disk # None /\ disk[1] > 90
                                THEN 1800 ELSE 3600]_vars

\* C30: after a pass of the file reaper that raised no exception,
\* max_file_age is 1800 s if the disk usage read in the pass exceeded 90% and
\* 3600 s otherwise, whatever the memory usage; a pass that raised leaves
\* max_file_age as it was; so it is always one of the two values.  The sweep
\* of a pass uses the threshold left by the pass before it, and the loop goes
\* on after a pass that raised.
C30_ThresholdFollowsDisk ==
    /\ [](max_file_age \in {1800, 3600})
    /\ [](reaper.sweeping)
    /\ [][response'.op = "cleanup_temp_files"
          => \A failing \in SUBSET (1..SmallJobs), memory \in MemoryReadings,
                disk \in DiskReadings :
                ReaperPass(failing, memory, disk)
                => /\ (memory # None /\ disk # None)
                      => max_file_age' = IF disk[1] > 90 THEN 1800 ELSE 3600
                   /\ (memory = None \/ disk = None) => max_file_age' = max_file_age
                   /\ DOMAIN files' = DOMAIN files \ Due(files, max_file_age, now)]_vars

\* A pass has raised after an earlier pass had lowered the threshold, which
\* is still 1800 s
C30_Witness ==
    /\ response.op = "cleanup_temp_files"
    /\ response.raised
    /\ max_file_age = 1800
    /\ reaper.sweeping

\* C31: after a successful GET /download-file/{id}, the FileRecord and its
\* temp directory stay in place for the reclaim delay counted from that
\* fetch: while the cleanup_after_download of a fetch has not yet reached the
\* end of its sleep, the record of its id and the directory are there.
C31_ServedFileKept ==
    \A tm \in timers :
        now < tm[2] => /\ tm[1] \in DOMAIN files
                       /\ DirExists(dirs, files[tm[1]].temp_dir)

\* C32: a task id that has left the registry (DELETE /task/{id} or
\* cleanup_old_tasks) never comes back: an id enters the registry only by the
\* create_task of its own request, which happens once, so no update_task of
\* the running job inserts it again.  DELETE changes neither the job nor
\* active_downloads, the semaphore or the files: the job keeps its slot until
\* its finally clause, and on success it registers a FileRecord for the id
\* although the task is gone.
C32_RemovedStaysRemoved ==
    /\ [](active_downloads = Cardinality(Admitted) /\ sem <= SemaphoreSlots - Cardinality(Admitted))
    /\ [][\A j \in 1..SmallJobs :
            /\ (j \in DOMAIN tasks' /\ j \notin DOMAIN tasks)
                  => job[j].pc = "new" /\ job'[j].pc = "queued"
            /\ job[j].pc # "new" => job'[j].pc # "new"
            /\ (tasks' # tasks /\ DeleteTask(j))
                  => UNCHANGED <<active_downloads, sem, job, files, dirs>>
            /\ (j \notin DOMAIN tasks /\ files' # files /\ FinishOk(j))
                  => /\ j \in DOMAIN files'
                     /\ j \notin DOMAIN tasks'
                     /\ active_downloads' = active_downloads - 1]_vars

\* The task of a running job was deleted; the job went on, has its file and
\* still holds its slot; its completion then registered the FileRecord
C32_Witness ==
    /\ job[1].pc = "done"
    /\ job[1].err = None
    /\ 1 \notin DOMAIN tasks
    /\ 1 \in DOMAIN files
    /\ files[1].created_at < cleanup_interval
    /\ job[2].pc = "returned"
    /\ 2 \notin DOMAIN tasks
    /\ active_downloads = 1

\* C33: the passes of cleanup_temp_files, the cleanup_after_download of each
\* fetch and the sweep of shutdown_event, in any order on the same
\* FileRecord: no call of cleanup_file raises, whether the record or its
\* directory is still there or not; the record is gone once the delayed
\* reclaim of a fetch has run and once a shutdown sweep has found it due; a
\* record is removed at most once, rmtree is attempted only in the step that
\* removes the record, and the directory of a removed record is never
\* touched again.
C33_ReclaimersRaceSafely ==
    /\ [](\A x \in 1..SmallJobs, rm_ok \in BOOLEAN :
             cleanup_file_raises([files |-> files, dirs |-> dirs, reclaimed |-> reclaimed],
                                 x, rm_ok) = None)
    /\ [](reclaimed \cap DOMAIN files = {})
    /\ [][/\ reclaimed' = reclaimed \cup (DOMAIN files \ DOMAIN files')
          /\ \A x \in DOMAIN files \ DOMAIN files' : x \notin reclaimed
          /\ \A x \in 1..SmallJobs :
                dirs'[x] # dirs[x] => x \in DOMAIN files /\ x \notin DOMAIN files'
          /\ \A tm \in timers \ timers' : tm[1] \notin DOMAIN files'
          /\ (shutdown.pc = "sweep" /\ shutdown'.pc = "done")
                => OldFiles(files, max_file_age, now) \cap DOMAIN files' = {}]_vars

\* All three have acted on record 1 after its fetch: a pass of the periodic
\* sweep, the shutdown sweep and the delayed reclaim; the record is gone and
\* the one rmtree that was attempted failed, so its directory is still there
C33_Witness ==
    /\ response = [op |-> "download_file", id |-> 1, code |-> 200]
    /\ timers = {}
    /\ shutdown.pc = "done"
    /\ max_file_age = ReducedMaxFileAge
    /\ 1 \in reclaimed
    /\ 1 \notin DOMAIN files
    /\ DirExists(dirs, 1)

\* C34: for every set of available variants and every duration, exactly one
\* of the synthesized video options (1080p, 720p, 480p, best available) has
\* recommended = True.
C34_OneRecommended ==
    response.op = "extract_video_info"
    => LET fs == response.formats
       IN Cardinality({i \in 1..Len(fs) :
                          fs[i].format_id # "bestaudio" /\ fs[i].recommended = TRUE}) = 1

====
